---- MODULE Spec2Model ----
(***************************************************************************)
(* Model of the restore engine of the Okta developer-account migration     *)
(* tool (restore.go, with the resource catalog of GetBackupConfig) and of  *)
(* its backup engine (backup.go).                                          *)
(*                                                                         *)
(* A restore run reads a persisted file tree (the path namespace), issues  *)
(* okta-cli-client calls (the Backend) and accumulates an old-identifier   *)
(* to new-identifier mapping.  The file tree and the mapping file found at *)
(* start are inputs; the outcome of every Backend call is chosen by the    *)
(* environment.                                                            *)
(***************************************************************************)
EXTENDS Naturals, Sequences, FiniteSets, TLC

VARIABLES
    fs,            \* the persisted record files under inputDir
    mapFile,       \* content of <inputDir>/id_mapping.json
    Mappings,      \* IDMapping.Mappings: type -> (old id -> new id)
    phase,         \* position of PerformRestore
    dIdx,          \* index of the descriptor the current pass is at
    eIdx,          \* index into the listing of the descriptor's directory (0: not opened)
    fIdx,          \* index into the listing of the current subdirectory (0: not opened)
    newSourceID,   \* local of restoreSecondPassResources / newUserID of the handlers
    handler,       \* the custom restorer that is running, "" when none
    handlersLeft,  \* custom restorers the range loop has not visited yet
    calls,         \* every Backend call issued so far, in order
    lookups,       \* every GetNewID lookup made by SecondPass and the handlers
    nextId,        \* number of identifiers the Backend has assigned
    loadRes,       \* what idMapping.Load found and returned, once it has run
    ret,           \* what the last IDMapping method or PerformBackup returned
    ids,           \* ids of backupSecondPassResources: the identifiers it read
    nilMaps        \* which maps of IDMapping.Mappings are nil: the map itself (m),
                   \* the tables of resource types (t); a nil map reads as an empty one

vars == <<fs, mapFile, Mappings, phase, dIdx, eIdx, fIdx, newSourceID,
          handler, handlersLeft, calls, lookups, nextId, loadRes, ret, ids,
          nilMaps>>

-----------------------------------------------------------------------------
(* Bounds of the model *)

\* largest number of persisted entries in the file tree of a run
MaxEntries == 3

-----------------------------------------------------------------------------
(* The resource catalog: GetBackupConfig *)

R(name, list, get, req, src, single) ==
    [Name |-> name, ListCommand |-> list, GetCommand |-> get,
     RequiresIDs |-> req, SourceIDDir |-> src, IsSingleton |-> single]

FirstPassResources ==
    << R("user", "lists", "get", FALSE, "", FALSE),
       R("group", "lists", "get", FALSE, "", FALSE),
       R("userType", "lists", "get", FALSE, "", FALSE),
       R("application", "lists", "get", FALSE, "", FALSE),
       R("authorizationServer", "lists", "get", FALSE, "", FALSE),
       R("identityProvider", "lists", "get", FALSE, "", FALSE),
       R("networkZone", "lists", "get", FALSE, "", FALSE),
       R("trustedOrigin", "lists", "get", FALSE, "", FALSE),
       R("apiToken", "lists", "get", FALSE, "", FALSE),
       R("customDomain", "lists", "get", FALSE, "", FALSE),
       R("customization", "listBrands", "", FALSE, "", FALSE),
       R("eventHook", "lists", "get", FALSE, "", FALSE),
       R("inlineHook", "lists", "get", FALSE, "", FALSE),
       R("hookKey", "lists", "get", FALSE, "", FALSE),
       R("role", "lists", "get", FALSE, "", FALSE),
       R("feature", "lists", "get", FALSE, "", FALSE),
       R("emailDomain", "lists", "get", FALSE, "", FALSE),
       R("template", "listSmss", "getSms", FALSE, "", FALSE) >>

SecondPassResources ==
    << R("group", "listUsers", "", TRUE, "group", FALSE),
       R("group", "listAssignedApplicationsFor", "", TRUE, "group", FALSE),
       R("user", "listAppLinks", "", TRUE, "user", FALSE),
       R("user", "listGroups", "", TRUE, "user", FALSE),
       R("user", "listGrants", "", TRUE, "user", FALSE),
       R("user", "listIdentityProviders", "", TRUE, "user", FALSE),
       R("userFactor", "listFactors", "", TRUE, "user", FALSE),
       R("roleAssignment", "listAssignedRolesForUser", "", TRUE, "user", FALSE),
       R("authorizationServerClaims", "listOAuth2Claims", "", TRUE, "authorizationServer", FALSE),
       R("authorizationServerScopes", "listOAuth2Scopes", "", TRUE, "authorizationServer", FALSE),
       R("authorizationServerPolicies", "list", "", TRUE, "authorizationServer", FALSE),
       R("authorizationServerClients", "listOAuth2ClientsForAuthorizationServer", "", TRUE, "authorizationServer", FALSE),
       R("policy", "listRules", "", TRUE, "policy", FALSE),
       R("authorizationServerRules", "listAuthorizationServerPolicyRules", "", TRUE, "authorizationServerPolicy", FALSE),
       R("identityProvider", "listKeys", "", TRUE, "identityProvider", FALSE),
       R("identityProvider", "listSigningKeys", "", TRUE, "identityProvider", FALSE) >>

SingletonResources ==
    << R("orgSetting", "", "gets", FALSE, "", TRUE),
       R("orgSetting", "", "getOrgPreferences", FALSE, "", TRUE),
       R("orgSetting", "", "getOktaCommunicationSettings", FALSE, "", TRUE),
       R("orgSetting", "", "getOrgOktaSupportSettings", FALSE, "", TRUE),
       R("orgSetting", "", "getThirdPartyAdminSetting", FALSE, "", TRUE),
       R("orgSetting", "", "getWellknownOrgMetadata", FALSE, "", TRUE),
       R("attackProtection", "", "getUserLockoutSettings", FALSE, "", TRUE),
       R("attackProtection", "", "getAuthenticatorSettings", FALSE, "", TRUE),
       R("threatInsight", "", "getCurrentConfiguration", FALSE, "", TRUE),
       R("rateLimitSettings", "", "getPerClient", FALSE, "", TRUE),
       R("rateLimitSettings", "", "getWarningThreshold", FALSE, "", TRUE),
       R("rateLimitSettings", "", "getAdminNotifications", FALSE, "", TRUE) >>

\* getParameterFlagForResource: the command-line flag of a resource name
paramMap ==
    [ group |-> "groupId", user |-> "userId", application |-> "applicationId",
      authorizationServer |-> "authServerId",
      authorizationServerPolicies |-> "authServerId",
      authorizationServerRules |-> "policyId",
      identityProvider |-> "idpId", policy |-> "policyId",
      userFactor |-> "userId", roleAssignment |-> "userId",
      applicationGroups |-> "appId", applicationUsers |-> "appId",
      applicationTokens |-> "appId", applicationCredentials |-> "appId",
      applicationFeatures |-> "appId", applicationGrants |-> "appId",
      authorizationServerClaims |-> "authServerId",
      authorizationServerScopes |-> "authServerId",
      authorizationServerClients |-> "authServerId",
      groupOwner |-> "groupId" ]

getParameterFlagForResource(resourceName) ==
    IF resourceName \in DOMAIN paramMap THEN paramMap[resourceName] ELSE "id"

\* strings.ToLower on the resource names of the catalog
LowerTable ==
    [ userType |-> "usertype", authorizationServer |-> "authorizationserver",
      identityProvider |-> "identityprovider", networkZone |-> "networkzone",
      trustedOrigin |-> "trustedorigin", apiToken |-> "apitoken",
      customDomain |-> "customdomain", eventHook |-> "eventhook",
      inlineHook |-> "inlinehook", hookKey |-> "hookkey",
      emailDomain |-> "emaildomain", userFactor |-> "userfactor",
      roleAssignment |-> "roleassignment",
      authorizationServerClaims |-> "authorizationserverclaims",
      authorizationServerScopes |-> "authorizationserverscopes",
      authorizationServerPolicies |-> "authorizationserverpolicies",
      authorizationServerClients |-> "authorizationserverclients",
      authorizationServerRules |-> "authorizationserverrules",
      orgSetting |-> "orgsetting", attackProtection |-> "attackprotection",
      threatInsight |-> "threatinsight", rateLimitSettings |-> "ratelimitsettings" ]

\* the names strings.ToLower changes
LowerNames == DOMAIN LowerTable

ToLower(s) == IF s \in LowerNames THEN LowerTable[s] ELSE s

-----------------------------------------------------------------------------
(* The path namespace *)

\* A persisted entry <inputDir>/<dir>/<cmd>/[<src>/]<base><ext> with its content.
\* content.wf says whether the file parses as a JSON object; the other fields
\* of content are the string-valued fields of that object.
F(dir, cmd, src, base, ext, content) ==
    [dir |-> dir, cmd |-> cmd, src |-> src, base |-> base, ext |-> ext,
     content |-> content]

Obj(id) == [wf |-> TRUE, id |-> id]

\* the entries a file tree of the model is drawn from
Universe ==
    { F("group", "lists", "", "g1", ".json", Obj("g1")),
      F("group", "lists", "", "g2", ".json", Obj("g2")),
      F("group", "lists", "", "notes", ".txt", [wf |-> FALSE]),
      F("user", "lists", "", "u1", ".json", Obj("u1")),
      F("application", "lists", "", "a1", ".json", Obj("a1")),
      F("customization", "listBrands", "", "b1", ".json", Obj("b1")),
      F("authorizationserver", "lists", "", "s1", ".json", Obj("s1")),
      F("authorizationserverclaims", "listOAuth2Claims", "s1", "c1", ".json", Obj("c1")),
      F("group", "listUsers", "g1", "u1", ".json", Obj("u1")),
      F("group", "listUsers", "g2", "u1", ".json", Obj("u1")),
      F("user", "listAppLinks", "u1", "l1", ".json", Obj("l1")),
      F("user", "listGroups", "u1", "g1", ".json", Obj("g1")),
      F("user", "listGroups", "u1", "bad", ".json", [wf |-> FALSE]),
      F("roleassignment", "listAssignedRolesForUser", "u1", "r1", ".json",
        [wf |-> TRUE, id |-> "r1", type |-> "SUPER_ADMIN"]),
      F("applicationgroups", "listApplicationGroupAssignments", "", "x1", ".json",
        [wf |-> TRUE, id |-> "g1", appId |-> "a1"]),
      F("applicationgroups", "listApplicationGroupAssignments", "", "x2", ".json",
        [wf |-> TRUE, id |-> "g1", appId |-> "a1"]),
      F("orgsetting", "gets", "", "o1", ".json", [wf |-> TRUE]),
      F("attackprotection", "getUserLockoutSettings", "", "k1", ".json",
        [wf |-> TRUE]) }

\* file and directory names in the byte order os.ReadDir sorts by
NameOrder ==
    << "a1.json", "b1.json", "bad.json", "c1.json", "g1", "g1.json", "g2",
       "g2.json", "id_mapping.json", "k1.json", "l1.json", "notes.txt", "o1.json", "r1.json", "s1",
       "s1.json", "u1", "u1.json", "x1.json", "x2.json" >>

Rank(name) == CHOOSE i \in 1..Len(NameOrder) : NameOrder[i] = name

\* a directory entry as os.ReadDir reports it
DirEnt(name, ext, isDir) == [name |-> name, ext |-> ext, isDir |-> isDir]

FileName(d) == d.name \o d.ext

RECURSIVE SortEnts(_)
SortEnts(S) ==
    IF S = {} THEN << >>
    ELSE LET m == CHOOSE x \in S : \A y \in S : Rank(FileName(x)) <= Rank(FileName(y))
         IN  <<m>> \o SortEnts(S \ {m})

\* os.Stat(<inputDir>/<dir>/<cmd>) finds the directory
DirExists(tree, dir, cmd) == \E e \in tree : e.dir = dir /\ e.cmd = cmd

\* os.ReadDir(<inputDir>/<dir>/<cmd>): files and subdirectories, sorted by name
ReadDir(tree, dir, cmd) ==
    SortEnts({ DirEnt(e.base, e.ext, FALSE) :
                  e \in { x \in tree : x.dir = dir /\ x.cmd = cmd /\ x.src = "" } }
             \cup
             { DirEnt(e.src, "", TRUE) :
                  e \in { x \in tree : x.dir = dir /\ x.cmd = cmd /\ x.src # "" } })

\* os.ReadDir(<inputDir>/<dir>/<cmd>/<src>)
ReadSubDir(tree, dir, cmd, src) ==
    SortEnts({ DirEnt(e.base, e.ext, FALSE) :
                  e \in { x \in tree : x.dir = dir /\ x.cmd = cmd /\ x.src = src } })

\* the persisted entry a path names
FileAt(tree, dir, cmd, src, d) ==
    CHOOSE e \in tree : e.dir = dir /\ e.cmd = cmd /\ e.src = src
                        /\ e.base = d.name /\ e.ext = d.ext

\* !file.IsDir() && strings.HasSuffix(file.Name(), ".json")
IsJSONFile(d) == ~d.isDir /\ d.ext = ".json"

\* strings.TrimSuffix(file.Name(), ".json") of a file that has the suffix
TrimSuffix(d) == d.name

-----------------------------------------------------------------------------
(* IDMapping *)

EmptyMappings == [t \in {} |-> [o \in {} |-> ""]]

\* a mapping file kept among the records of the user listing
NewIDMapping_InRecordDir ==
    [dir |-> "user", cmd |-> "lists", base |-> "id_mapping", ext |-> ".json"]

\* NewIDMapping: FilePath, <restoreDir>/id_mapping.json (dir, cmd: the
\* directories below restoreDir the file lies in, none)
NewIDMapping ==
    [dir |-> "", cmd |-> "", base |-> "id_mapping", ext |-> ".json"]

\* the record entries below restoreDir once Save has written the file at
\* path: the file is one of them only when path lies in a <type>/<command>
\* directory
RecordsAfterSave(tree, path) ==
    IF path.dir = "" THEN tree
    ELSE { e \in tree : ~(e.dir = path.dir /\ e.cmd = path.cmd /\ e.src = ""
                           /\ e.base = path.base /\ e.ext = path.ext) }
         \cup { F(path.dir, path.cmd, "", path.base, path.ext, [wf |-> TRUE]) }

\* a mapping file left by an earlier restore run
PriorMappings ==
    [t \in {"user", "group"} |->
        IF t = "user" THEN [o \in {"u1"} |-> "p1"] ELSE [o \in {"g1"} |-> "p2"]]

\* the strings that can be keys of the mapping (resource types, identifiers)
\* in the byte order encoding/json writes the keys of a map in
KeyOrder ==
    << "a1", "application", "authorizationServer", "b1", "g1", "g2", "group",
       "n1", "n2", "n3", "n4", "n5", "p1", "p2", "s1", "u1", "user" >>

KeyRank(k) == CHOOSE i \in 1..Len(KeyOrder) : KeyOrder[i] = k

RECURSIVE SortKeys(_)
SortKeys(S) ==
    IF S = {} THEN << >>
    ELSE LET k == CHOOSE x \in S : \A y \in S : KeyRank(x) <= KeyRank(y)
         IN  <<k>> \o SortKeys(S \ {k})

\* a JSON value as it stands in the text: an object with its members in text
\* order, a string, a number, or null
JObject(ms) == [j |-> "object", s |-> "", ms |-> ms]
JString(str) == [j |-> "string", s |-> str, ms |-> << >>]
JNumber == [j |-> "number", s |-> "", ms |-> << >>]
JNull == [j |-> "null", s |-> "", ms |-> << >>]

\* a member of a JSON object as it stands in the text
Member(k, v) == [k |-> k, v |-> v]

\* no map of IDMapping.Mappings is nil: the state NewIDMapping leaves
NoNil == [m |-> FALSE, t |-> {}]

\* json.MarshalIndent of a map[string]string: one member per key, keys sorted
MarshalObject(inner) ==
    LET ks == SortKeys(DOMAIN inner)
    IN  JObject([i \in 1..Len(ks) |-> Member(ks[i], JString(inner[ks[i]]))])

\* the text of a table: null for a nil one
MarshalTable(m, nils, type) ==
    IF type \in nils.t THEN JNull ELSE MarshalObject(m[type])

\* a Save that writes the entries of one resource type only
MarshalIndent_FirstType(m, nils) ==
    LET ts == SortKeys(DOMAIN m)
    IN  IF nils.m THEN JNull
        ELSE JObject([i \in 1..(IF Len(ts) > 1 THEN 1 ELSE Len(ts)) |->
                         Member(ts[i], MarshalTable(m, nils, ts[i]))])

\* json.MarshalIndent(m.Mappings, "", "  "): the text of the whole mapping, a
\* member per resource type holding the object of its entries; a nil map is
\* written as null
MarshalIndent(m, nils) ==
    LET ts == SortKeys(DOMAIN m)
    IN  IF nils.m THEN JNull
        ELSE JObject([i \in 1..Len(ts) |->
                         Member(ts[i], MarshalTable(m, nils, ts[i]))])

\* a decoder that stops after the first member of an object
UnmarshalObject_FirstMember(ms) ==
    [k \in { ms[i].k : i \in DOMAIN ms \cap {1} } |-> ms[1].v]

\* decoding one JSON object into a map: members in text order, a repeated
\* key keeps its last value
UnmarshalObject(ms) ==
    [k \in { ms[i].k : i \in DOMAIN ms } |->
        ms[CHOOSE i \in DOMAIN ms :
              /\ ms[i].k = k
              /\ \A j \in DOMAIN ms : ms[j].k = k => j <= i].v]

\* decoding a JSON value into a Go string: null leaves the zero value, and so
\* does a value of another kind, which is an UnmarshalTypeError
UnmarshalString(v) == IF v.j = "string" THEN v.s ELSE ""

StringTypeError(v) == v.j \notin {"string", "null"}

\* decoding a JSON value into a map[string]string: the entries of an object;
\* null and a value of another kind (an UnmarshalTypeError) leave the nil map
UnmarshalTable(v) ==
    IF v.j = "object"
    THEN LET inner == UnmarshalObject(v.ms)
         IN  [o \in DOMAIN inner |-> UnmarshalString(inner[o])]
    ELSE [o \in {} |-> ""]

TableTypeError(v) ==
    \/ v.j \notin {"object", "null"}
    \/ v.j = "object" /\ \E i \in DOMAIN v.ms : StringTypeError(v.ms[i].v)

\* json.Unmarshal(data, &m.Mappings) of text that parses, into the empty map
\* NewIDMapping made: the mapping afterwards, which of its maps are nil, and
\* whether an error is returned.  null sets the map to nil without an error;
\* a value that does not fit is passed over with its zero value stored, the
\* rest is decoded, and the first UnmarshalTypeError is returned at the end.
Unmarshal(text) ==
    CASE text.j = "null" ->
            [m |-> EmptyMappings, nil |-> [m |-> TRUE, t |-> {}], err |-> FALSE]
      [] text.j = "object" ->
            LET outer == UnmarshalObject(text.ms)
            IN  [m   |-> [t \in DOMAIN outer |-> UnmarshalTable(outer[t])],
                 nil |-> [m |-> FALSE,
                          t |-> { t \in DOMAIN outer : outer[t].j # "object" }],
                 err |-> \E i \in DOMAIN text.ms : TableTypeError(text.ms[i].v)]
      [] OTHER ->
            [m |-> EmptyMappings, nil |-> NoNil, err |-> TRUE]

\* no text: the file is missing, or what it holds is not JSON
NoText == JNull

\* what id_mapping.json may hold when a restore run starts: nothing, the
\* snapshot an earlier run saved, or JSON with a number where a string and
\* where a table is expected
MapFiles ==
    { [exists |-> FALSE, wf |-> TRUE, data |-> NoText],
      [exists |-> TRUE, wf |-> TRUE, data |-> MarshalIndent(PriorMappings, NoNil)],
      [exists |-> TRUE, wf |-> TRUE,
       data |-> JObject(<< Member("group", JObject(<< Member("g1", JString("p2")),
                                                       Member("g2", JNumber) >>)),
                           Member("user", JNumber) >>)] }

\* how os.WriteFile can end: everything written; the file could not be opened
\* for writing; the file was opened (and so truncated) but not written out
WriteOutcomes == {"ok", "openfail", "writefail"}

\* os.WriteFile(m.FilePath, data, 0644): the file afterwards
WriteFile(file, data, w) ==
    CASE w = "ok"        -> [exists |-> TRUE, wf |-> TRUE, data |-> data]
      [] w = "openfail"  -> file
      [] w = "writefail" -> [exists |-> TRUE, wf |-> FALSE, data |-> NoText]

\* IDMapping.Save: the text of the whole in-memory mapping replaces the file;
\* the error of the write is the result
Save(file, m, nils, w) ==
    [file |-> WriteFile(file, MarshalIndent(m, nils), w), err |-> w # "ok"]

\* AddMapping that leaves an entry that is already there as it is
AddMapping_KeepExisting(m, resourceType, oldID, newID) ==
    LET inner == IF resourceType \in DOMAIN m THEN m[resourceType]
                 ELSE [o \in {} |-> ""]
        upd   == [o \in DOMAIN inner \cup {oldID} |->
                     IF o \in DOMAIN inner THEN inner[o] ELSE newID]
    IN  [t \in DOMAIN m \cup {resourceType} |->
            IF t = resourceType THEN upd ELSE m[t]]

\* IDMapping.AddMapping, the in-memory part
AddMapping(m, resourceType, oldID, newID) ==
    LET inner == IF resourceType \in DOMAIN m THEN m[resourceType]
                 ELSE [o \in {} |-> ""]
        upd   == [o \in DOMAIN inner \cup {oldID} |->
                     IF o = oldID THEN newID ELSE inner[o]]
    IN  [t \in DOMAIN m \cup {resourceType} |->
            IF t = resourceType THEN upd ELSE m[t]]

\* AddMapping panics ("assignment to entry in nil map"): the map is nil and
\* gets a table assigned, or the table of the resource type is there and nil
AddMappingPanics(nils, resourceType) == nils.m \/ resourceType \in nils.t

\* a method of IDMapping has panicked: the process is gone
Panicked == ret.w = "panic"

\* GetNewID reporting a missing entry as found, with the zero value
GetNewID_AlwaysFound(m, resourceType, oldID) ==
    IF resourceType \notin DOMAIN m THEN [id |-> "", ok |-> TRUE]
    ELSE IF oldID \notin DOMAIN m[resourceType] THEN [id |-> "", ok |-> TRUE]
    ELSE [id |-> m[resourceType][oldID], ok |-> TRUE]

\* GetNewID that reports an entry as found whenever its resource type is known
GetNewID_TypeOnly(m, resourceType, oldID) ==
    IF resourceType \notin DOMAIN m THEN [id |-> "", ok |-> FALSE]
    ELSE IF oldID \notin DOMAIN m[resourceType] THEN [id |-> "", ok |-> TRUE]
    ELSE [id |-> m[resourceType][oldID], ok |-> TRUE]

\* IDMapping.GetNewID
GetNewID(m, resourceType, oldID) ==
    IF resourceType \notin DOMAIN m THEN [id |-> "", ok |-> FALSE]
    ELSE IF oldID \notin DOMAIN m[resourceType] THEN [id |-> "", ok |-> FALSE]
    ELSE [id |-> m[resourceType][oldID], ok |-> TRUE]

\* Load that reports a missing file as an error
Load_MissingIsError(file) ==
    IF ~file.exists THEN [m |-> EmptyMappings, nil |-> NoNil, err |-> TRUE]
    ELSE IF ~file.wf THEN [m |-> EmptyMappings, nil |-> NoNil, err |-> TRUE]
    ELSE Unmarshal(file.data)

\* IDMapping.Load: the mapping in memory after the call, which of its maps are
\* nil, and whether it failed.  A missing file gives an empty mapping; content
\* that is not JSON leaves the mapping NewIDMapping made; JSON is decoded by
\* json.Unmarshal, whose error is the result.
Load(file) ==
    IF ~file.exists THEN [m |-> EmptyMappings, nil |-> NoNil, err |-> FALSE]
    ELSE IF ~file.wf THEN [m |-> EmptyMappings, nil |-> NoNil, err |-> TRUE]
    ELSE Unmarshal(file.data)

\* the outcome of idMapping.Load as its caller has it: whether the file was
\* there, the error returned, and the mapping in memory after the call
LoadResult(done, found, err, m) ==
    [done |-> done, found |-> found, err |-> err, m |-> m]

\* the result of a method of IDMapping as its caller has it: the method, its
\* arguments, the values returned (id, ok, err) and how the write it made ended
Ret(op, type, old, new, id, ok, err, w) ==
    [op |-> op, type |-> type, old |-> old, new |-> new, id |-> id, ok |-> ok,
     err |-> err, w |-> w]

NoRet == Ret("", "", "", "", "", FALSE, FALSE, "")

\* a GetNewID lookup: who made it, for which descriptor, and its result
Lookup(by, res, lcmd, type, old, found) ==
    [by |-> by, res |-> res, lcmd |-> lcmd, type |-> type, old |-> old,
     found |-> found]

-----------------------------------------------------------------------------
(* The Backend: okta-cli-client *)

\* the identifier the target account assigns to its n-th created object
NewID(n) == "n" \o ToString(n)

\* a Backend call: who issued it, the argument vector (without the file path),
\* the persisted file it is for, the old source identifier it was derived
\* from, the descriptor it was issued for, and how it ended
Call(by, argv, file, res, lcmd, oldSrc, form, out, id) ==
    [by |-> by, argv |-> argv, file |-> file, res |-> res, lcmd |-> lcmd,
     oldSrc |-> oldSrc, form |-> form, out |-> out, id |-> id]

-----------------------------------------------------------------------------
(* PerformRestore *)

\* PerformRestore with the first pass run before the singleton pass
NextPhase_FirstPassEarly(p) ==
    CASE p = "Init"       -> "FirstPass"
      [] p = "FirstPass"  -> "Singleton"
      [] p = "Singleton"  -> "SecondPass"
      [] p = "SecondPass" -> "Association"
      [] p = "Association" -> "Done"

\* PerformRestore with the second pass run before the first pass
NextPhase_SecondPassEarly(p) ==
    CASE p = "Init"       -> "Singleton"
      [] p = "Singleton"  -> "SecondPass"
      [] p = "SecondPass" -> "FirstPass"
      [] p = "FirstPass"  -> "Association"
      [] p = "Association" -> "Done"

\* the order in which PerformRestore runs its steps
NextPhase(p) ==
    CASE p = "Init"       -> "Singleton"
      [] p = "Singleton"  -> "FirstPass"
      [] p = "FirstPass"  -> "SecondPass"
      [] p = "SecondPass" -> "Association"
      [] p = "Association" -> "Done"

Init ==
    /\ fs \in { t \in SUBSET Universe : Cardinality(t) <= MaxEntries }
    /\ mapFile \in MapFiles
    /\ Mappings = EmptyMappings
    /\ phase = "Init"
    /\ dIdx = 1
    /\ eIdx = 0
    /\ fIdx = 0
    /\ newSourceID = ""
    /\ handler = ""
    /\ handlersLeft = {}
    /\ calls = << >>
    /\ lookups = {}
    /\ nextId = 0
    /\ loadRes = LoadResult(FALSE, FALSE, FALSE, EmptyMappings)
    /\ ret = NoRet
    /\ ids = << >>
    /\ nilMaps = NoNil

\* NewIDMapping, idMapping.Load (an error is only printed), GetBackupConfig
LoadMapping ==
    /\ phase = "Init"
    /\ Mappings' = Load(mapFile).m
    /\ nilMaps' = Load(mapFile).nil
    /\ loadRes' = LoadResult(TRUE, mapFile.exists, Load(mapFile).err, Mappings')
    /\ phase' = NextPhase(phase)
    /\ UNCHANGED <<ids, ret, fs, mapFile, dIdx, eIdx, fIdx, newSourceID, handler,
                   handlersLeft, calls, lookups, nextId>>

\* the descriptors a pass walks
PassList(p) ==
    CASE p = "Singleton"  -> SingletonResources
      [] p = "FirstPass"  -> FirstPassResources
      [] p = "SecondPass" -> SecondPassResources
      [] OTHER -> << >>

\* a descriptor loop that gives the pass up at the first descriptor it would
\* have passed over
FirstToProcess_StopAtSkip(n, from, skipped) ==
    IF from \in skipped THEN n + 1
    ELSE LET todo == (from..n) \ skipped
         IN  IF todo = {} THEN n + 1
             ELSE CHOOSE j \in todo : \A i \in todo : j <= i

\* the descriptor loop of a pass running on from descriptor `from`: the index
\* of the first of the n descriptors that is not passed over by a `continue`
\* before its directory is listed (skipped: the indices passed over), n + 1
\* when the loop runs out
FirstToProcess(n, from, skipped) ==
    LET todo == (from..n) \ skipped
    IN  IF todo = {} THEN n + 1
        ELSE CHOOSE j \in todo : \A i \in todo : j <= i

\* end of an inner loop over a directory listing of n entries: the next entry,
\* or the next descriptor of the pass
NextEntry(n) ==
    /\ eIdx' = IF eIdx < n THEN eIdx + 1 ELSE 0
    /\ dIdx' = IF eIdx < n THEN dIdx ELSE dIdx + 1

-----------------------------------------------------------------------------
(* restoreSingletonResources *)

\* a singleton pass that reads the directory of the list command
SingletonDir_Lists(resource) == <<ToLower(resource.Name), "lists">>

\* the directory the singleton pass reads the files of a descriptor from
SingletonDir(resource) == <<ToLower(resource.Name), resource.GetCommand>>

\* the descriptor is passed over: no backup directory for it
SingletonSkips(resource) ==
    ~DirExists(fs, SingletonDir(resource)[1], SingletonDir(resource)[2])

\* the descriptor loop up to the next directory listing
SingletonOpen ==
    /\ phase = "Singleton" /\ dIdx <= Len(SingletonResources) /\ eIdx = 0
    /\ dIdx' = FirstToProcess(Len(SingletonResources), dIdx,
                   { j \in 1..Len(SingletonResources) : SingletonSkips(SingletonResources[j]) })
    /\ eIdx' = IF dIdx' <= Len(SingletonResources) THEN 1 ELSE 0
    /\ UNCHANGED <<nilMaps, ids, loadRes, ret, fs, mapFile, Mappings, phase, fIdx, newSourceID, handler,
                   handlersLeft, calls, lookups, nextId>>

\* one iteration of the file loop: a create per .json file, failure only logged
SingletonFile ==
    /\ phase = "Singleton" /\ dIdx <= Len(SingletonResources) /\ eIdx >= 1
    /\ LET resource == SingletonResources[dIdx]
           p == SingletonDir(resource)
           files == ReadDir(fs, p[1], p[2])
           file == files[eIdx]
       IN  /\ IF IsJSONFile(file)
              THEN \E out \in {"ok", "fail"} :
                     calls' = Append(calls,
                        Call("restoreSingletonResources",
                             <<resource.Name, "create", "--restore-from">>,
                             FileAt(fs, p[1], p[2], "", file),
                             resource.Name, resource.GetCommand, "", "primary", out, ""))
              ELSE calls' = calls
           /\ NextEntry(Len(files))
    /\ UNCHANGED <<nilMaps, ids, loadRes, ret, fs, mapFile, Mappings, phase, fIdx, newSourceID, handler,
                   handlersLeft, lookups, nextId>>

-----------------------------------------------------------------------------
(* restoreFirstPassResources *)

\* the directory the first pass reads the records of a descriptor from
FirstPassDir(resource) == <<ToLower(resource.Name), "lists">>

\* how a create of the first pass can end: the command succeeds and prints the
\* created record with its id; the command succeeds but no id can be read from
\* its output; the command fails
CreateOutcomes == {"ok", "noid", "fail"}

\* restoreResource: the new identifier, or an error
restoreResource(out, n) ==
    IF out = "ok" THEN [id |-> NewID(n), err |-> FALSE]
    ELSE [id |-> "", err |-> TRUE]

\* a first pass that also passes over the types the loaded mapping knows
FirstPassSkips_Mapped(resource) ==
    \/ resource.ListCommand = ""
    \/ ~DirExists(fs, FirstPassDir(resource)[1], FirstPassDir(resource)[2])
    \/ resource.Name \in DOMAIN loadRes.m

\* the descriptor is passed over: no list command, or no backup directory
FirstPassSkips(resource) ==
    \/ resource.ListCommand = ""
    \/ ~DirExists(fs, FirstPassDir(resource)[1], FirstPassDir(resource)[2])

\* the descriptor loop up to the next directory listing
FirstPassOpen ==
    /\ phase = "FirstPass" /\ dIdx <= Len(FirstPassResources) /\ eIdx = 0
    /\ dIdx' = FirstToProcess(Len(FirstPassResources), dIdx,
                   { j \in 1..Len(FirstPassResources) : FirstPassSkips(FirstPassResources[j]) })
    /\ eIdx' = IF dIdx' <= Len(FirstPassResources) THEN 1 ELSE 0
    /\ UNCHANGED <<nilMaps, ids, loadRes, ret, fs, mapFile, Mappings, phase, fIdx, newSourceID, handler,
                   handlersLeft, calls, lookups, nextId>>

\* one iteration of the file loop: create, then AddMapping, which panics on a
\* nil map and otherwise sets the entry and saves, the outcome of the write
\* being dropped
FirstPassFile ==
    /\ phase = "FirstPass" /\ dIdx <= Len(FirstPassResources) /\ eIdx >= 1
    /\ ~Panicked
    /\ LET resource == FirstPassResources[dIdx]
           p == FirstPassDir(resource)
           files == ReadDir(fs, p[1], p[2])
           file == files[eIdx]
           oldID == TrimSuffix(file)
       IN  IF ~IsJSONFile(file)
           THEN /\ NextEntry(Len(files))
                /\ UNCHANGED <<calls, nextId, Mappings, mapFile, fs, ret>>
           ELSE \E out \in CreateOutcomes :
                  LET r == restoreResource(out, nextId + 1)
                  IN  /\ calls' = Append(calls,
                           Call("restoreFirstPassResources",
                                <<resource.Name, "create", "--restore-from">>,
                                FileAt(fs, p[1], p[2], "", file),
                                resource.Name, resource.ListCommand, "",
                                "primary", out, r.id))
                      /\ nextId' = IF out = "fail" THEN nextId ELSE nextId + 1
                      /\ IF r.err
                         THEN /\ NextEntry(Len(files))
                              /\ UNCHANGED <<Mappings, mapFile, fs, ret>>
                         ELSE IF AddMappingPanics(nilMaps, resource.Name)
                         THEN /\ ret' = Ret("AddMapping", resource.Name, oldID, r.id,
                                            "", FALSE, FALSE, "panic")
                              /\ UNCHANGED <<Mappings, mapFile, fs, dIdx, eIdx>>
                         ELSE \E w \in WriteOutcomes :
                                /\ Mappings' = AddMapping(Mappings, resource.Name, oldID, r.id)
                                /\ mapFile' = Save(mapFile, Mappings', nilMaps, w).file
                                /\ fs' = IF w = "openfail" THEN fs
                                         ELSE RecordsAfterSave(fs, NewIDMapping)
                                /\ NextEntry(Len(files))
                                /\ UNCHANGED ret
    /\ UNCHANGED <<nilMaps, ids, loadRes, phase, fIdx, newSourceID, handler, handlersLeft, lookups>>

-----------------------------------------------------------------------------
(* custom restorers *)

\* customRestorers: resource-type name -> restorer
customRestorers ==
    [ applicationGroups |-> "ApplicationGroupsRestorer",
      user |-> "UserGroupsRestorer",
      roleAssignment |-> "RoleAssignmentRestorer" ]

\* a second pass that does not consult customRestorers
hasCustomHandler_Never(name) == FALSE

\* the handler lookup keyed by the lowercased name, as the directories are
hasCustomHandler_Lowercased(name) == ToLower(name) \in DOMAIN customRestorers

\* _, hasCustomHandler := customRestorers[resource.Name]
hasCustomHandler(name) == name \in DOMAIN customRestorers

-----------------------------------------------------------------------------
(* restoreSecondPassResources *)

\* isAssignmentResource without the "group" entries of its table
isAssignmentResource_UserOnly(resourceName, listCommand) ==
    resourceName = "user" /\ listCommand = "listGroups"

isAssignmentResource(resourceName, listCommand) ==
    \/ resourceName = "user" /\ listCommand = "listGroups"
    \/ resourceName = "group" /\ listCommand \in {"listUsers", "listAssignedApplicationsFor"}

\* buildAssignmentCommand: the argument vector, << >> for nil
buildAssignmentCommand(resourceName, sourceIDParam, sourceID) ==
    IF resourceName = "user" /\ sourceIDParam = "userId"
    THEN <<"group", "addUserToGroup", "--userId", sourceID,
           "--groupId", "TARGET_GROUP_ID", "--assignment-file">>
    ELSE IF resourceName = "group" /\ sourceIDParam = "groupId"
    THEN <<"user", "addUserToGroup", "--groupId", sourceID,
           "--userId", "TARGET_USER_ID", "--assignment-file">>
    ELSE << >>

\* the second pass passing the subdirectory name instead of the looked-up identifier
SecondPassCommand_OldID(resource, oldSrcID, newSrcID) ==
    LET sourceIDParam == getParameterFlagForResource(resource.SourceIDDir)
    IN  IF isAssignmentResource(resource.Name, resource.ListCommand)
        THEN buildAssignmentCommand(resource.Name, sourceIDParam, oldSrcID)
        ELSE <<resource.Name, "create", "--" \o sourceIDParam, oldSrcID,
               "--restore-from">>

\* the command the second pass builds for one record file
SecondPassCommand(resource, oldSrcID, newSrcID) ==
    LET sourceIDParam == getParameterFlagForResource(resource.SourceIDDir)
    IN  IF isAssignmentResource(resource.Name, resource.ListCommand)
        THEN buildAssignmentCommand(resource.Name, sourceIDParam, newSrcID)
        ELSE <<resource.Name, "create", "--" \o sourceIDParam, newSrcID,
               "--restore-from">>

SecondPassDir(resource) == <<ToLower(resource.Name), resource.ListCommand>>

\* a second pass that records the record it created under its old name
SecondPassResult_Mapped(m, resourceName, oldID, out) ==
    IF out = "ok" THEN AddMapping(m, resourceName, oldID, oldID) ELSE m

\* what the second pass keeps of a finished command: its output goes to the
\* terminal (cmd.Stdout = os.Stdout), success or failure is printed, no
\* identifier is read and the mapping is as it was
SecondPassResult(m, resourceName, oldID, out) == m

\* the descriptor is passed over: it has a custom handler, or no backup directory
SecondPassSkips(resource) ==
    \/ hasCustomHandler(resource.Name)
    \/ ~DirExists(fs, SecondPassDir(resource)[1], SecondPassDir(resource)[2])

\* the descriptor loop up to the next directory listing
SecondPassOpen ==
    /\ phase = "SecondPass" /\ dIdx <= Len(SecondPassResources) /\ eIdx = 0
    /\ dIdx' = FirstToProcess(Len(SecondPassResources), dIdx,
                   { j \in 1..Len(SecondPassResources) : SecondPassSkips(SecondPassResources[j]) })
    /\ eIdx' = IF dIdx' <= Len(SecondPassResources) THEN 1 ELSE 0
    /\ UNCHANGED <<nilMaps, ids, loadRes, ret, fs, mapFile, Mappings, phase, fIdx, newSourceID, handler,
                   handlersLeft, calls, lookups, nextId>>

\* one iteration of the subdirectory loop up to the listing of the subdirectory
SecondPassSubdir ==
    /\ phase = "SecondPass" /\ dIdx <= Len(SecondPassResources)
    /\ eIdx >= 1 /\ fIdx = 0
    /\ LET resource == SecondPassResources[dIdx]
           p == SecondPassDir(resource)
           subdirs == ReadDir(fs, p[1], p[2])
           subdir == subdirs[eIdx]
           oldSourceID == subdir.name
           r == GetNewID(Mappings, resource.SourceIDDir, oldSourceID)
       IN  IF ~subdir.isDir
           THEN /\ NextEntry(Len(subdirs))
                /\ UNCHANGED <<fIdx, newSourceID, lookups>>
           ELSE /\ lookups' = lookups \cup
                      {Lookup("restoreSecondPassResources", resource.Name,
                              resource.ListCommand, resource.SourceIDDir,
                              oldSourceID, r.ok)}
                /\ IF ~r.ok
                   THEN /\ NextEntry(Len(subdirs))
                        /\ UNCHANGED <<fIdx, newSourceID>>
                   ELSE /\ newSourceID' = r.id
                        /\ fIdx' = 1
                        /\ UNCHANGED <<dIdx, eIdx>>
    /\ UNCHANGED <<nilMaps, ids, loadRes, ret, fs, mapFile, Mappings, phase, handler, handlersLeft, calls,
                   nextId>>

\* one iteration of the file loop of a subdirectory
SecondPassFile ==
    /\ phase = "SecondPass" /\ dIdx <= Len(SecondPassResources)
    /\ eIdx >= 1 /\ fIdx >= 1
    /\ LET resource == SecondPassResources[dIdx]
           p == SecondPassDir(resource)
           subdirs == ReadDir(fs, p[1], p[2])
           oldSourceID == subdirs[eIdx].name
           files == ReadSubDir(fs, p[1], p[2], oldSourceID)
           file == files[fIdx]
           cmd == SecondPassCommand(resource, oldSourceID, newSourceID)
       IN  /\ IF IsJSONFile(file) /\ cmd # << >>
              THEN \E out \in {"ok", "fail"} :
                     /\ calls' = Append(calls,
                           Call("restoreSecondPassResources", cmd,
                                FileAt(fs, p[1], p[2], oldSourceID, file),
                                resource.Name, resource.ListCommand, oldSourceID,
                                "primary", out, ""))
                     /\ Mappings' = SecondPassResult(Mappings, resource.Name,
                                                     TrimSuffix(file), out)
              ELSE calls' = calls /\ Mappings' = Mappings
           /\ IF fIdx < Len(files)
              THEN fIdx' = fIdx + 1 /\ UNCHANGED <<dIdx, eIdx>>
              ELSE fIdx' = 0 /\ NextEntry(Len(subdirs))
    /\ UNCHANGED <<nilMaps, ids, loadRes, ret, fs, mapFile, phase, newSourceID, handler,
                   handlersLeft, lookups, nextId>>

\* a pass has walked all its descriptors and returns to PerformRestore
EndPass ==
    /\ phase \in {"Singleton", "FirstPass", "SecondPass"}
    /\ dIdx > Len(PassList(phase))
    /\ phase' = NextPhase(phase)
    /\ dIdx' = 1
    /\ handlersLeft' = IF phase' = "Association" THEN DOMAIN customRestorers ELSE {}
    /\ UNCHANGED <<nilMaps, ids, loadRes, ret, fs, mapFile, Mappings, eIdx, fIdx, newSourceID, handler,
                   calls, lookups, nextId>>

-----------------------------------------------------------------------------
(* UserGroupsRestorer, RoleAssignmentRestorer, ApplicationGroupsRestorer *)

\* the directory a custom restorer reads
RestorerDir(h) ==
    CASE h = "user" -> <<"user", "listGroups">>
      [] h = "roleAssignment" -> <<"roleassignment", "listAssignedRolesForUser">>
      [] h = "applicationGroups" ->
            <<"applicationgroups", "listApplicationGroupAssignments">>

\* end of a restorer's loop over its directory listing of n entries: the next
\* entry, or return to PerformRestore
NextRestorerEntry(n) ==
    /\ eIdx' = IF eIdx < n THEN eIdx + 1 ELSE 0
    /\ handler' = IF eIdx < n THEN handler ELSE ""

\* the restorer returns at once: its directory is missing
RestorerSkips(h) == ~DirExists(fs, RestorerDir(h)[1], RestorerDir(h)[2])

\* a range loop that is left after the first restorer that listed its directory
RestorersLeft_FirstOnly(live, h) == {}

\* the restorers the range loop has yet to call once it has called h
RestorersLeft(live, h) == live \ {h}

\* PerformRestore ranges over customRestorers (in no fixed order) and calls
\* Restore: the range loop up to the next restorer that lists its directory,
\* the restorers that return at once on the way being done with
StartRestorer ==
    /\ phase = "Association" /\ handler = "" /\ handlersLeft # {}
    /\ LET live == { h \in handlersLeft : ~RestorerSkips(h) }
       IN  IF live = {}
           THEN handlersLeft' = {} /\ handler' = "" /\ eIdx' = 0
           ELSE \E h \in live :
                   handlersLeft' = RestorersLeft(live, h) /\ handler' = h /\ eIdx' = 1
    /\ UNCHANGED <<nilMaps, ids, loadRes, ret, fs, mapFile, Mappings, phase, dIdx, fIdx, newSourceID,
                   calls, lookups, nextId>>

\* UserGroupsRestorer / RoleAssignmentRestorer: one iteration of the loop over
\* the user directories, up to the listing of the user's directory
RestorerUserDir ==
    /\ phase = "Association" /\ handler \in {"user", "roleAssignment"}
    /\ eIdx >= 1 /\ fIdx = 0
    /\ LET p == RestorerDir(handler)
           userDirs == ReadDir(fs, p[1], p[2])
           userDir == userDirs[eIdx]
           oldUserID == userDir.name
           r == GetNewID(Mappings, "user", oldUserID)
       IN  IF ~userDir.isDir
           THEN /\ NextRestorerEntry(Len(userDirs))
                /\ UNCHANGED <<fIdx, newSourceID, lookups>>
           ELSE /\ lookups' = lookups \cup
                      {Lookup(customRestorers[handler], handler, p[2], "user",
                              oldUserID, r.ok)}
                /\ IF ~r.ok
                   THEN /\ NextRestorerEntry(Len(userDirs))
                        /\ UNCHANGED <<fIdx, newSourceID>>
                   ELSE /\ newSourceID' = r.id
                        /\ fIdx' = 1
                        /\ UNCHANGED <<eIdx, handler>>
    /\ UNCHANGED <<nilMaps, ids, loadRes, ret, fs, mapFile, Mappings, phase, dIdx, handlersLeft, calls,
                   nextId>>

\* end of the file loop of a user directory of n files
NextUserFile(n, nDirs) ==
    IF fIdx < n
    THEN fIdx' = fIdx + 1 /\ UNCHANGED <<eIdx, handler>>
    ELSE fIdx' = 0 /\ NextRestorerEntry(nDirs)

\* UserGroupsRestorer's call with the two identifiers under each other's flag
UserGroupsCommand_Crossed(newGroupID, newUserID) ==
    <<"group", "addUserToGroup", "--groupId", newUserID, "--userId", newGroupID>>

\* the argument vector of UserGroupsRestorer's call
UserGroupsCommand(newGroupID, newUserID) ==
    <<"group", "addUserToGroup", "--groupId", newGroupID, "--userId", newUserID>>

\* the argument vector of RoleAssignmentRestorer's call
RoleAssignmentCommand(newUserID, roleType) ==
    <<"role", "assignRoleToUser", "--userId", newUserID, "--type", roleType>>

\* UserGroupsRestorer: one iteration of the loop over a user's group files
UserGroupsFile ==
    /\ phase = "Association" /\ handler = "user"
    /\ eIdx >= 1 /\ fIdx >= 1
    /\ LET p == RestorerDir(handler)
           userDirs == ReadDir(fs, p[1], p[2])
           oldUserID == userDirs[eIdx].name
           groupFiles == ReadSubDir(fs, p[1], p[2], oldUserID)
           file == groupFiles[fIdx]
           entry == FileAt(fs, p[1], p[2], oldUserID, file)
           group == entry.content
           readable == IsJSONFile(file) /\ group.wf /\ "id" \in DOMAIN group
           oldGroupID == group.id
           r == GetNewID(Mappings, "group", oldGroupID)
       IN  /\ IF readable
              THEN /\ lookups' = lookups \cup
                         {Lookup("UserGroupsRestorer", handler, p[2], "group",
                                 oldGroupID, r.ok)}
                   /\ IF r.ok
                      THEN \E out \in {"ok", "fail"} :
                             calls' = Append(calls,
                                Call("UserGroupsRestorer",
                                     UserGroupsCommand(r.id, newSourceID),
                                     entry, "user", "listGroups", oldUserID,
                                     "primary", out, ""))
                      ELSE calls' = calls
              ELSE UNCHANGED <<lookups, calls>>
           /\ NextUserFile(Len(groupFiles), Len(userDirs))
    /\ UNCHANGED <<nilMaps, ids, loadRes, ret, fs, mapFile, Mappings, phase, dIdx, newSourceID,
                   handlersLeft, nextId>>

\* RoleAssignmentRestorer: one iteration of the loop over a user's role files
RoleAssignmentFile ==
    /\ phase = "Association" /\ handler = "roleAssignment"
    /\ eIdx >= 1 /\ fIdx >= 1
    /\ LET p == RestorerDir(handler)
           userDirs == ReadDir(fs, p[1], p[2])
           oldUserID == userDirs[eIdx].name
           roleFiles == ReadSubDir(fs, p[1], p[2], oldUserID)
           file == roleFiles[fIdx]
           entry == FileAt(fs, p[1], p[2], oldUserID, file)
           role == entry.content
           readable == IsJSONFile(file) /\ role.wf /\ "type" \in DOMAIN role
       IN  /\ IF readable
              THEN \E out \in {"ok", "fail"} :
                     calls' = Append(calls,
                        Call("RoleAssignmentRestorer",
                             RoleAssignmentCommand(newSourceID, role.type),
                             entry, "roleAssignment", "listAssignedRolesForUser",
                             oldUserID, "primary", out, ""))
              ELSE calls' = calls
           /\ NextUserFile(Len(roleFiles), Len(userDirs))
    /\ UNCHANGED <<nilMaps, ids, loadRes, ret, fs, mapFile, Mappings, phase, dIdx, newSourceID,
                   handlersLeft, lookups, nextId>>

\* ApplicationGroupsRestorer giving up after the primary form
AppGroupsAttempts_NoRetry(newAppID, newGroupID, entry, outs) ==
    << Call("ApplicationGroupsRestorer",
            <<"applicationGroups", "assignGroupToApplication",
              "--appId", newAppID, "--groupId", newGroupID, "--restore-from">>,
            entry, "applicationGroups", "listApplicationGroupAssignments", "",
            "primary", outs[1], "") >>

\* the Backend calls ApplicationGroupsRestorer issues for one record: the
\* primary form and, when that fails, the form with empty data
AppGroupsAttempts(newAppID, newGroupID, entry, outs) ==
    LET primary == Call("ApplicationGroupsRestorer",
                        <<"applicationGroups", "assignGroupToApplication",
                          "--appId", newAppID, "--groupId", newGroupID,
                          "--restore-from">>,
                        entry, "applicationGroups",
                        "listApplicationGroupAssignments", "", "primary",
                        outs[1], "")
        degraded == Call("ApplicationGroupsRestorer",
                         <<"applicationGroups", "assignGroupToApplication",
                           "--appId", newAppID, "--groupId", newGroupID,
                           "--data", "{}">>,
                         entry, "applicationGroups",
                         "listApplicationGroupAssignments", "", "degraded",
                         outs[2], "")
    IN  IF outs[1] = "ok" THEN <<primary>> ELSE <<primary, degraded>>

\* ApplicationGroupsRestorer: one iteration of the loop over the assignment files
AppGroupsFile ==
    /\ phase = "Association" /\ handler = "applicationGroups"
    /\ eIdx >= 1
    /\ LET p == RestorerDir(handler)
           files == ReadDir(fs, p[1], p[2])
           file == files[eIdx]
           entry == FileAt(fs, p[1], p[2], "", file)
           assignment == entry.content
           readable == /\ IsJSONFile(file) /\ assignment.wf
                       /\ "appId" \in DOMAIN assignment
                       /\ "id" \in DOMAIN assignment
           ra == GetNewID(Mappings, "application", assignment.appId)
           rg == GetNewID(Mappings, "group", assignment.id)
           la == Lookup("ApplicationGroupsRestorer", handler, p[2], "application",
                        assignment.appId, ra.ok)
           lg == Lookup("ApplicationGroupsRestorer", handler, p[2], "group",
                        assignment.id, rg.ok)
       IN  /\ IF ~readable
              THEN UNCHANGED <<lookups, calls>>
              ELSE IF ~ra.ok
              THEN lookups' = lookups \cup {la} /\ calls' = calls
              ELSE IF ~rg.ok
              THEN lookups' = lookups \cup {la, lg} /\ calls' = calls
              ELSE /\ lookups' = lookups \cup {la, lg}
                   /\ \E outs \in {<<"ok", "ok">>, <<"fail", "ok">>, <<"fail", "fail">>} :
                        calls' = calls \o AppGroupsAttempts(ra.id, rg.id, entry, outs)
           /\ NextRestorerEntry(Len(files))
    /\ UNCHANGED <<nilMaps, ids, loadRes, ret, fs, mapFile, Mappings, phase, dIdx, fIdx, newSourceID,
                   handlersLeft, nextId>>

\* every restorer has returned: "Restore completed successfully!"
Finish ==
    /\ phase = "Association" /\ handler = "" /\ handlersLeft = {}
    /\ phase' = NextPhase(phase)
    /\ UNCHANGED <<nilMaps, ids, loadRes, ret, fs, mapFile, Mappings, dIdx, eIdx, fIdx, newSourceID,
                   handler, handlersLeft, calls, lookups, nextId>>

Next ==
    \/ LoadMapping
    \/ SingletonOpen
    \/ SingletonFile
    \/ FirstPassOpen
    \/ FirstPassFile
    \/ SecondPassOpen
    \/ SecondPassSubdir
    \/ SecondPassFile
    \/ EndPass
    \/ StartRestorer
    \/ RestorerUserDir
    \/ UserGroupsFile
    \/ RoleAssignmentFile
    \/ AppGroupsFile
    \/ Finish

Spec == Init /\ [][Next]_vars

-----------------------------------------------------------------------------
(* The IDMapping store on its own: a caller that makes a store, loads it and *)
(* then calls its methods in any order with any arguments, every write     *)
(* ending in any way it can, until the process ends or is killed.          *)

\* the (resource type, old identifier) pairs and the new identifiers the
\* caller passes: two types, two entries of one type, one old identifier under
\* both types, and two values to overwrite one with the other
StoreKeys == { <<"user", "u1">>, <<"user", "g1">>, <<"group", "g1">> }
StoreNewIDs == {"n1", "n2"}

\* what id_mapping.json may hold when the store is loaded: the files of a run,
\* text that is not JSON, null, a type whose table is null, a snapshot whose
\* keys are not in sorted order, and one with a type that has no entries
StoreFiles ==
    MapFiles \cup
    { [exists |-> TRUE, wf |-> FALSE, data |-> NoText],
      [exists |-> TRUE, wf |-> TRUE, data |-> JNull],
      [exists |-> TRUE, wf |-> TRUE,
       data |-> JObject(<< Member("group", JNull) >>)],
      [exists |-> TRUE, wf |-> TRUE,
       data |-> JObject(<< Member("user", JObject(<< Member("u1", JString("p1")) >>)),
                           Member("group", JObject(<< Member("g1", JString("p2")) >>)) >>)],
      [exists |-> TRUE, wf |-> TRUE,
       data |-> JObject(<< Member("group", JObject(<< >>)),
                           Member("user", JObject(<< Member("u1", JString("p1")) >>)) >>)] }

StoreInit ==
    /\ fs = {}
    /\ mapFile \in StoreFiles
    /\ Mappings = EmptyMappings
    /\ phase = "Init"
    /\ dIdx = 1
    /\ eIdx = 0
    /\ fIdx = 0
    /\ newSourceID = ""
    /\ handler = ""
    /\ handlersLeft = {}
    /\ calls = << >>
    /\ lookups = {}
    /\ nextId = 0
    /\ loadRes = LoadResult(FALSE, FALSE, FALSE, EmptyMappings)
    /\ ret = NoRet
    /\ ids = << >>
    /\ nilMaps = NoNil

\* NewIDMapping, then Load
StoreLoad ==
    /\ phase = "Init"
    /\ Mappings' = Load(mapFile).m
    /\ nilMaps' = Load(mapFile).nil
    /\ loadRes' = LoadResult(TRUE, mapFile.exists, Load(mapFile).err, Mappings')
    /\ ret' = Ret("Load", "", "", "", "", FALSE, Load(mapFile).err, "")
    /\ phase' = "Open"
    /\ UNCHANGED <<ids, fs, mapFile, dIdx, eIdx, fIdx, newSourceID, handler,
                   handlersLeft, calls, lookups, nextId>>

\* AddMapping: a panic when the map it assigns to is nil; otherwise the entry
\* is set, then Save; the method returns nothing, the error of Save is dropped
StoreAddMapping ==
    /\ phase = "Open" /\ ~Panicked
    /\ \E k \in StoreKeys, n \in StoreNewIDs :
          IF AddMappingPanics(nilMaps, k[1])
          THEN /\ ret' = Ret("AddMapping", k[1], k[2], n, "", FALSE, FALSE, "panic")
               /\ UNCHANGED <<Mappings, mapFile>>
          ELSE \E w \in WriteOutcomes :
                 /\ Mappings' = AddMapping(Mappings, k[1], k[2], n)
                 /\ mapFile' = Save(mapFile, Mappings', nilMaps, w).file
                 /\ ret' = Ret("AddMapping", k[1], k[2], n, "", FALSE, FALSE, w)
    /\ UNCHANGED <<nilMaps, ids, fs, phase, dIdx, eIdx, fIdx, newSourceID, handler,
                   handlersLeft, calls, lookups, nextId, loadRes>>

\* GetNewID
StoreGetNewID ==
    /\ phase = "Open" /\ ~Panicked
    /\ \E k \in StoreKeys :
          LET r == GetNewID(Mappings, k[1], k[2])
          IN  ret' = Ret("GetNewID", k[1], k[2], "", r.id, r.ok, FALSE, "")
    /\ UNCHANGED <<nilMaps, ids, fs, mapFile, Mappings, phase, dIdx, eIdx, fIdx, newSourceID,
                   handler, handlersLeft, calls, lookups, nextId, loadRes>>

\* Save called by itself
StoreSave ==
    /\ phase = "Open" /\ ~Panicked
    /\ \E w \in WriteOutcomes :
          LET r == Save(mapFile, Mappings, nilMaps, w)
          IN  /\ mapFile' = r.file
              /\ ret' = Ret("Save", "", "", "", "", FALSE, r.err, w)
    /\ UNCHANGED <<nilMaps, ids, fs, Mappings, phase, dIdx, eIdx, fIdx, newSourceID,
                   handler, handlersLeft, calls, lookups, nextId, loadRes>>

\* what a write leaves on disk when the process is killed while it runs:
\* os.WriteFile opens the file with O_TRUNC and writes in place, so the file
\* is the old one (killed before the open), cut short (killed after the open
\* and before the last byte), or the new text (killed after the write)
InterruptedWrite(file, data) ==
    { file,
      [exists |-> TRUE, wf |-> FALSE, data |-> NoText],
      [exists |-> TRUE, wf |-> TRUE, data |-> data] }

\* the process is killed inside an AddMapping: the entry may be in memory, the
\* write is wherever it got to; nothing runs afterwards
StoreInterrupt ==
    /\ phase = "Open" /\ ~Panicked
    /\ \E k \in StoreKeys, n \in StoreNewIDs :
          /\ IF AddMappingPanics(nilMaps, k[1])
             THEN UNCHANGED <<Mappings, mapFile>>
             ELSE /\ Mappings' = AddMapping(Mappings, k[1], k[2], n)
                  /\ mapFile' \in InterruptedWrite(mapFile,
                                                   MarshalIndent(Mappings', nilMaps))
          /\ ret' = Ret("Interrupt", k[1], k[2], n, "", FALSE, FALSE, "")
    /\ phase' = "Killed"
    /\ UNCHANGED <<nilMaps, ids, fs, dIdx, eIdx, fIdx, newSourceID, handler, handlersLeft,
                   calls, lookups, nextId, loadRes>>

StoreNext ==
    \/ StoreLoad
    \/ StoreAddMapping
    \/ StoreGetNewID
    \/ StoreSave
    \/ StoreInterrupt

StoreSpec == StoreInit /\ [][StoreNext]_vars

-----------------------------------------------------------------------------
(* PerformBackup: the backup engine                                        *)
(*                                                                         *)
(* A backup run walks the catalog and has okta-cli-client (the Backend)    *)
(* write what it retrieves below outputDir.  The files already below       *)
(* outputDir at start are an input; whether a command succeeds is chosen   *)
(* by the environment.                                                     *)

\* largest number of commands that fail in one backup run
MaxFailures == 1

\* what the source account holds: the identifiers of the records a command
\* retrieves (param: the identifier the command is parameterized by)
Listing(name, cmd, param) ==
    CASE name = "user" /\ cmd = "lists" /\ param = "" -> {"u1"}
      [] name = "group" /\ cmd = "lists" /\ param = "" -> {"g1", "g2"}
      [] name = "authorizationServer" /\ cmd = "lists" /\ param = "" -> {"s1"}
      [] name = "group" /\ cmd = "listUsers" /\ param = "g1" -> {"u1"}
      [] name = "user" /\ cmd = "listGroups" /\ param = "u1" -> {"g1"}
      [] name = "roleAssignment" /\ cmd = "listAssignedRolesForUser" /\ param = "u1" -> {"r1"}
      [] name = "authorizationServerClaims" /\ cmd = "listOAuth2Claims" /\ param = "s1" -> {"c1"}
      [] name = "orgSetting" /\ cmd = "gets" /\ param = "" -> {"o1"}
      [] OTHER -> {}

\* the entries a successful command leaves below --backup-dir: one file per
\* record, at the place of the path layout that the restore passes read
Persist(name, cmd, param) ==
    { F(ToLower(name), cmd, param, id, ".json", Obj(id)) :
        id \in Listing(name, cmd, param) }

\* entries that may lie below outputDir before the run: records of an earlier
\* backup, a file that is no record, and a directory named in camel case
BackupSeeds ==
    { F("user", "lists", "", "u1", ".json", Obj("u1")),
      F("group", "lists", "", "notes", ".txt", [wf |-> FALSE]),
      F("group", "lists", "", "g1", ".json", Obj("g1")),
      F("authorizationServer", "lists", "", "s1", ".json", Obj("s1")) }

\* a Backend call of the backup is for no persisted file
NoFile == F("", "", "", "", "", [wf |-> FALSE])

\* the commands that have failed so far
Failures == Cardinality({ i \in 1..Len(calls) : calls[i].out = "fail" })

\* how a command can end in the state
Outcomes == IF Failures < MaxFailures THEN {"ok", "fail"} ELSE {"ok"}

\* the tree after a command: a failed command is taken to have written nothing
TreeAfter(tree, name, cmd, param, out) ==
    IF out = "ok" THEN tree \cup Persist(name, cmd, param) ELSE tree

\* the order of the passes of PerformBackup, the second pass run before the
\* singleton pass
BackupNextPhase_SecondPassEarly(p) ==
    CASE p = "BackupStart"      -> "BackupFirstPass"
      [] p = "BackupFirstPass"  -> "BackupSecondPass"
      [] p = "BackupSecondPass" -> "BackupSingleton"
      [] p = "BackupSingleton"  -> "BackupDone"

\* the order of the passes of PerformBackup
BackupNextPhase(p) ==
    CASE p = "BackupStart"      -> "BackupFirstPass"
      [] p = "BackupFirstPass"  -> "BackupSingleton"
      [] p = "BackupSingleton"  -> "BackupSecondPass"
      [] p = "BackupSecondPass" -> "BackupDone"

\* the descriptors a pass of the backup walks
BackupPassList(p) ==
    CASE p = "BackupFirstPass"  -> FirstPassResources
      [] p = "BackupSingleton"  -> SingletonResources
      [] p = "BackupSecondPass" -> SecondPassResources
      [] OTHER -> << >>

\* a loop that is left when a command fails
AfterCall_AbortOnFailure(out, i, n) == IF out = "fail" THEN n + 1 ELSE i + 1

\* the loop after the command of element i of n: a failure is printed and the
\* loop continues, as it does after a success
AfterCall(out, i, n) == i + 1

BackupInit ==
    /\ fs \in { t \in SUBSET BackupSeeds : Cardinality(t) <= MaxEntries }
    /\ mapFile = [exists |-> FALSE, wf |-> FALSE, data |-> NoText]
    /\ Mappings = EmptyMappings
    /\ phase = "BackupStart"
    /\ dIdx = 1
    /\ eIdx = 0
    /\ fIdx = 0
    /\ newSourceID = ""
    /\ handler = ""
    /\ handlersLeft = {}
    /\ calls = << >>
    /\ lookups = {}
    /\ nextId = 0
    /\ loadRes = LoadResult(FALSE, FALSE, FALSE, EmptyMappings)
    /\ ret = NoRet
    /\ ids = << >>
    /\ nilMaps = NoNil

\* the default output directory: without --output the home directory is asked
\* for, and the run ends with an error when it cannot be found
BackupBegin ==
    /\ phase = "BackupStart"
    /\ \E given \in BOOLEAN, homeErr \in BOOLEAN :
          IF ~given /\ homeErr
          THEN /\ phase' = "BackupDone"
               /\ ret' = Ret("PerformBackup", "", "", "", "", FALSE, TRUE, "")
          ELSE /\ phase' = BackupNextPhase(phase)
               /\ ret' = ret
    /\ UNCHANGED <<nilMaps, ids, fs, mapFile, Mappings, dIdx, eIdx, fIdx, newSourceID,
                   handler, handlersLeft, calls, lookups, nextId, loadRes>>

\* one iteration of the first loop: the list command of an independent descriptor
BackupFirstPass ==
    /\ phase = "BackupFirstPass" /\ dIdx <= Len(FirstPassResources)
    /\ LET resource == FirstPassResources[dIdx]
       IN  \E out \in Outcomes :
              /\ calls' = Append(calls,
                    Call("PerformBackup",
                         <<resource.Name, resource.ListCommand, "--batch-backup",
                           "--backup-dir">>,
                         NoFile, resource.Name, resource.ListCommand, "",
                         "FirstPass", out, ""))
              /\ fs' = TreeAfter(fs, resource.Name, resource.ListCommand, "", out)
              /\ dIdx' = AfterCall(out, dIdx, Len(FirstPassResources))
    /\ UNCHANGED <<nilMaps, ids, loadRes, ret, mapFile, Mappings, phase, eIdx, fIdx,
                   newSourceID, handler, handlersLeft, lookups, nextId>>

\* one iteration of the second loop: the get command of a singleton descriptor
BackupSingleton ==
    /\ phase = "BackupSingleton" /\ dIdx <= Len(SingletonResources)
    /\ LET resource == SingletonResources[dIdx]
       IN  \E out \in Outcomes :
              /\ calls' = Append(calls,
                    Call("PerformBackup",
                         <<resource.Name, resource.GetCommand, "--backup-dir">>,
                         NoFile, resource.Name, resource.GetCommand, "",
                         "Singleton", out, ""))
              /\ fs' = TreeAfter(fs, resource.Name, resource.GetCommand, "", out)
              /\ dIdx' = AfterCall(out, dIdx, Len(SingletonResources))
    /\ UNCHANGED <<nilMaps, ids, loadRes, ret, mapFile, Mappings, phase, eIdx, fIdx,
                   newSourceID, handler, handlersLeft, lookups, nextId>>

\* a loop of PerformBackup has run out: the next pass starts
BackupEndPass ==
    /\ phase \in {"BackupFirstPass", "BackupSingleton", "BackupSecondPass"}
    /\ dIdx > Len(BackupPassList(phase))
    /\ BackupNextPhase(phase) # "BackupDone"
    /\ phase' = BackupNextPhase(phase)
    /\ dIdx' = 1
    /\ UNCHANGED <<nilMaps, ids, loadRes, ret, fs, mapFile, Mappings, eIdx, fIdx,
                   newSourceID, handler, handlersLeft, calls, lookups, nextId>>

-----------------------------------------------------------------------------
(* backupSecondPassResources *)

\* the directory the identifiers of a dependent descriptor are read from
SourceDir(resource) == <<resource.SourceIDDir, "lists">>

\* entry.Type().IsRegular() && strings.HasSuffix(entry.Name(), ".json")
IsIDFile(d) == ~d.isDir /\ d.ext = ".json"

\* getResourceIDsFromDirectory taking every entry of the directory for a record
getResourceIDsFromDirectory_AllEntries(tree, dir, cmd) ==
    LET entries == ReadDir(tree, dir, cmd)
    IN  [i \in 1..Len(entries) |-> TrimSuffix(entries[i])]

\* getResourceIDsFromDirectory: the names of the .json files without the suffix
getResourceIDsFromDirectory(tree, dir, cmd) ==
    LET entries == SelectSeq(ReadDir(tree, dir, cmd), IsIDFile)
    IN  [i \in 1..Len(entries) |-> TrimSuffix(entries[i])]

\* the head of the descriptor loop: the source directory is looked for and its
\* identifiers are read; without the directory or without identifiers the
\* descriptor is passed over
BackupSecondPassOpen ==
    /\ phase = "BackupSecondPass" /\ dIdx <= Len(SecondPassResources) /\ eIdx = 0
    /\ LET resource == SecondPassResources[dIdx]
           sourceDir == SourceDir(resource)
           found == IF DirExists(fs, sourceDir[1], sourceDir[2])
                    THEN getResourceIDsFromDirectory(fs, sourceDir[1], sourceDir[2])
                    ELSE << >>
       IN  IF Len(found) = 0
           THEN dIdx' = dIdx + 1 /\ UNCHANGED <<eIdx, ids>>
           ELSE ids' = found /\ eIdx' = 1 /\ dIdx' = dIdx
    /\ UNCHANGED <<nilMaps, loadRes, ret, fs, mapFile, Mappings, phase, fIdx, newSourceID,
                   handler, handlersLeft, calls, lookups, nextId>>

\* one iteration of the identifier loop: the list command for one identifier
BackupSecondPassID ==
    /\ phase = "BackupSecondPass" /\ dIdx <= Len(SecondPassResources) /\ eIdx >= 1
    /\ LET resource == SecondPassResources[dIdx]
           paramFlag == getParameterFlagForResource(resource.Name)
           id == ids[eIdx]
       IN  \E out \in Outcomes :
              /\ calls' = Append(calls,
                    Call("backupSecondPassResources",
                         <<resource.Name, resource.ListCommand, "--" \o paramFlag,
                           id, "--batch-backup", "--backup-dir">>,
                         NoFile, resource.Name, resource.ListCommand, id,
                         "SecondPass", out, ""))
              /\ fs' = TreeAfter(fs, resource.Name, resource.ListCommand, id, out)
              /\ LET e == AfterCall(out, eIdx, Len(ids))
                 IN  IF e <= Len(ids)
                     THEN eIdx' = e /\ UNCHANGED <<dIdx, ids>>
                     ELSE eIdx' = 0 /\ dIdx' = dIdx + 1 /\ ids' = << >>
    /\ UNCHANGED <<nilMaps, loadRes, ret, mapFile, Mappings, phase, fIdx, newSourceID,
                   handler, handlersLeft, lookups, nextId>>

\* the last pass has run out (backupSecondPassResources returns nil): the
\* summary is printed and PerformBackup returns nil
BackupFinish ==
    /\ phase \in {"BackupFirstPass", "BackupSingleton", "BackupSecondPass"}
    /\ dIdx > Len(BackupPassList(phase))
    /\ BackupNextPhase(phase) = "BackupDone"
    /\ phase' = BackupNextPhase(phase)
    /\ ret' = Ret("PerformBackup", "", "", "", "", TRUE, FALSE, "")
    /\ UNCHANGED <<nilMaps, ids, fs, mapFile, Mappings, dIdx, eIdx, fIdx, newSourceID,
                   handler, handlersLeft, calls, lookups, nextId, loadRes>>

BackupNext ==
    \/ BackupBegin
    \/ BackupFirstPass
    \/ BackupSingleton
    \/ BackupEndPass
    \/ BackupSecondPassOpen
    \/ BackupSecondPassID
    \/ BackupFinish

BackupSpec == BackupInit /\ [][BackupNext]_vars

-----------------------------------------------------------------------------
(* Vocabulary of the properties *)

\* the phases of a restore run in the order the design states
DesignPhases == <<"Init", "Singleton", "FirstPass", "SecondPass", "Association", "Done">>

PhaseNo(p) == CHOOSE i \in 1..Len(DesignPhases) : DesignPhases[i] = p

\* the phase a Backend call belongs to, by the function that issues it
PhaseOfCall(c) ==
    CASE c.by = "restoreSingletonResources"  -> "Singleton"
      [] c.by = "restoreFirstPassResources"  -> "FirstPass"
      [] c.by = "restoreSecondPassResources" -> "SecondPass"
      [] OTHER -> "Association"

CallIdx == 1..Len(calls)

\* the value that follows a flag in an argument vector, "" when the flag is absent
ArgOf(argv, flag) ==
    IF \E i \in 1..(Len(argv) - 1) : argv[i] = flag
    THEN argv[(CHOOSE i \in 1..(Len(argv) - 1) : argv[i] = flag) + 1]
    ELSE ""

Elems(argv) == { argv[i] : i \in 1..Len(argv) }

\* the source type of the dependent descriptor (name, list command)
SourceTypeOf(name, lcmd) ==
    LET k == CHOOSE j \in 1..Len(SecondPassResources) :
                /\ SecondPassResources[j].Name = name
                /\ SecondPassResources[j].ListCommand = lcmd
    IN  SecondPassResources[k].SourceIDDir

\* the flag under which the second pass passes the source identifier of c
SourceFlagOf(c) == "--" \o getParameterFlagForResource(SourceTypeOf(c.res, c.lcmd))

Resolvable(type, old) == type \in DOMAIN Mappings /\ old \in DOMAIN Mappings[type]

\* the record files persisted for a dependent descriptor, each in a
\* source-identifier subdirectory
DependentFiles(d) ==
    { e \in fs : /\ e.dir = ToLower(d.Name) /\ e.cmd = d.ListCommand
                 /\ e.src # "" /\ e.ext = ".json" }

SecondPassCalls == { i \in CallIdx : calls[i].by = "restoreSecondPassResources" }
FirstPassCalls == { i \in CallIdx : calls[i].by = "restoreFirstPassResources" }

-----------------------------------------------------------------------------
(* C1 *)

\* C1: a restore run moves through Init, Singleton, FirstPass, SecondPass,
\* Association, Done in that order, one phase at a time and never backwards;
\* every Backend call is issued by the phase in progress (so all calls of a
\* phase have returned before a later phase issues one); and no step removes
\* an issued call's effect or a mapping entry, and after FirstPass no mapping
\* entry changes.
C1_PhasesInOrder ==
    [][ /\ PhaseNo(phase') \in {PhaseNo(phase), PhaseNo(phase) + 1}
        /\ Len(calls') >= Len(calls)
        /\ SubSeq(calls', 1, Len(calls)) = calls
        /\ \A i \in (Len(calls) + 1)..Len(calls') :
              PhaseOfCall(calls'[i]) = phase /\ phase' = phase
        /\ \A t \in DOMAIN Mappings :
              /\ t \in DOMAIN Mappings'
              /\ \A o \in DOMAIN Mappings[t] :
                    /\ o \in DOMAIN Mappings'[t]
                    /\ PhaseNo(phase) > PhaseNo("FirstPass")
                          => Mappings'[t][o] = Mappings[t][o]
      ]_vars

\* a finished run that issued calls in three phases and recorded a mapping
C1_Witness ==
    /\ phase = "Done"
    /\ \E i, j, k \in CallIdx :
          /\ i < j /\ j < k
          /\ PhaseOfCall(calls[i]) = "Singleton"
          /\ PhaseOfCall(calls[j]) = "FirstPass"
          /\ PhaseOfCall(calls[k]) = "SecondPass"
    /\ DOMAIN Mappings # {}

-----------------------------------------------------------------------------
(* C2 *)

\* C2: every call the second pass issues for a dependent record carries, as
\* its source parameter, the new identifier IDMapping[sourceType][oldSourceID];
\* the old source identifier (the subdirectory name) is not passed.
C2_TranslatedSource ==
    \A i \in SecondPassCalls :
       LET c == calls[i]
           type == SourceTypeOf(c.res, c.lcmd)
       IN  /\ c.file.src = c.oldSrc
           /\ Resolvable(type, c.oldSrc)
           /\ ArgOf(c.argv, SourceFlagOf(c)) = Mappings[type][c.oldSrc]
           /\ c.oldSrc \notin Elems(c.argv)

\* a generic create of the second pass for a record whose parent was created
\* in this run
C2_Witness ==
    \E i \in SecondPassCalls, j \in FirstPassCalls :
       /\ calls[i].argv[2] = "create"
       /\ calls[j].out = "ok"
       /\ calls[j].file.base = calls[i].oldSrc
       /\ ArgOf(calls[i].argv, SourceFlagOf(calls[i])) = calls[j].id

-----------------------------------------------------------------------------
(* C3 *)

\* C3: in the first pass, for each persisted record file: when the create
\* succeeds, IDMapping[resourceName][oldID] = newID afterwards, oldID being the
\* file name without .json and newID the id of the created record; when the
\* create fails, no mapping entry is added or changed; either way the pass
\* goes on to the next file or descriptor.
C3_FirstPassMapping ==
    [][ (phase = "FirstPass" /\ Len(calls') = Len(calls) + 1) =>
          LET c == calls'[Len(calls')]
              oldID == c.file.base
          IN  /\ c.file.ext = ".json"
              /\ c.out = "ok" =>
                    /\ c.id = NewID(nextId')
                    /\ c.res \in DOMAIN Mappings'
                    /\ oldID \in DOMAIN Mappings'[c.res]
                    /\ Mappings'[c.res][oldID] = c.id
                    /\ \A t \in DOMAIN Mappings' : \A o \in DOMAIN Mappings'[t] :
                          <<t, o>> # <<c.res, oldID>> =>
                             /\ t \in DOMAIN Mappings /\ o \in DOMAIN Mappings[t]
                             /\ Mappings'[t][o] = Mappings[t][o]
              /\ c.out # "ok" => Mappings' = Mappings
              /\ phase' = "FirstPass"
              /\ <<dIdx', eIdx'>> # <<dIdx, eIdx>>
      ]_vars

-----------------------------------------------------------------------------
(* C4 *)

\* the record files persisted for an independent descriptor at
\* <root>/<lowercased type>/<list command>/<id>.json
IndependentFiles(d) ==
    { e \in fs : /\ e.dir = ToLower(d.Name) /\ e.cmd = d.ListCommand
                 /\ e.src = "" /\ e.ext = ".json" }

MappingCount(name) ==
    IF name \in DOMAIN Mappings THEN Cardinality(DOMAIN Mappings[name]) ELSE 0

\* every mapping entry was recorded by a create of this run: the run started
\* on an empty store, or has overwritten what it loaded
MappingFromThisRun ==
    \A t \in DOMAIN Mappings : \A o \in DOMAIN Mappings[t] :
       \E i \in FirstPassCalls :
          calls[i].out = "ok" /\ calls[i].id = Mappings[t][o]

\* C4: once the first pass is over, a create has been issued for every record
\* file persisted for every independent descriptor of the catalog, and when no
\* create failed and the store held nothing from an earlier run, the mapping
\* holds exactly one entry per persisted independent record.
C4_EveryIndependentRecordCreated ==
    PhaseNo(phase) > PhaseNo("FirstPass") =>
       \A k \in 1..Len(FirstPassResources) :
          LET d == FirstPassResources[k]
          IN  /\ \A e \in IndependentFiles(d) :
                    \E i \in FirstPassCalls : calls[i].file = e
              /\ ( (\A i \in FirstPassCalls : calls[i].out = "ok")
                   /\ MappingFromThisRun )
                 => MappingCount(d.Name) = Cardinality(IndependentFiles(d))

-----------------------------------------------------------------------------
(* C5 *)

\* the dependent descriptors the second pass handles itself
GenericDescriptors ==
    { k \in 1..Len(SecondPassResources) :
         SecondPassResources[k].Name \notin DOMAIN customRestorers }

\* the dependent descriptors with the directory their records are persisted in
DependentDirs ==
    { [name |-> SecondPassResources[k].Name,
       lcmd |-> SecondPassResources[k].ListCommand,
       type |-> SecondPassResources[k].SourceIDDir,
       dir  |-> ToLower(SecondPassResources[k].Name),
       registered |-> SecondPassResources[k].Name \in DOMAIN customRestorers] :
         k \in 1..Len(SecondPassResources) }

\* the persisted entry e lies in a source-identifier subdirectory of g
PersistedFor(e, g) == e.src # "" /\ e.dir = g.dir /\ e.cmd = g.lcmd

CallMadeFor(e) == \E i \in SecondPassCalls : calls[i].file = e

\* C5: a persisted dependent subdirectory whose old source identifier has no
\* entry in IDMapping[sourceType] is skipped whole by the second pass (no call
\* is issued for any record in it), and the pass goes on: once it is over,
\* every record of every translatable subdirectory has had its call.
C5_UnresolvedSubdirSkipped ==
    [](
    \A e \in fs :
       (e.src # "" /\ e.ext = ".json") =>
          \A g \in DependentDirs :
             (PersistedFor(e, g) /\ ~g.registered) =>
                IF Resolvable(g.type, e.src)
                THEN PhaseNo(phase) > PhaseNo("SecondPass") => CallMadeFor(e)
                ELSE ~CallMadeFor(e)
    )

\* a finished run whose second pass skipped an untranslatable subdirectory
\* and then restored a record of a later subdirectory of the same directory
C5_Witness ==
    /\ phase = "Done"
    /\ \E k \in GenericDescriptors :
          LET d == SecondPassResources[k]
          IN  \E e1, e2 \in DependentFiles(d) :
                 /\ Rank(e1.src) < Rank(e2.src)
                 /\ ~Resolvable(d.SourceIDDir, e1.src)
                 /\ Lookup("restoreSecondPassResources", d.Name, d.ListCommand,
                           d.SourceIDDir, e1.src, FALSE) \in lookups
                 /\ \E i \in SecondPassCalls : calls[i].file = e2

-----------------------------------------------------------------------------
(* C6 *)

\* the two endpoints of an association record: the type and old identifier
\* of each, and the flag its new identifier is passed under
Endpoints(by, e) ==
    IF by = "UserGroupsRestorer"
    THEN << [type |-> "user", old |-> e.src, flag |-> "--userId"],
            [type |-> "group", old |-> e.content.id, flag |-> "--groupId"] >>
    ELSE << [type |-> "application", old |-> e.content.appId, flag |-> "--appId"],
            [type |-> "group", old |-> e.content.id, flag |-> "--groupId"] >>

TwoEndpointRestorers == {"UserGroupsRestorer", "ApplicationGroupsRestorer"}

\* the persisted records of a two-endpoint restorer that name both endpoints
AssociationRecords(by) ==
    IF by = "UserGroupsRestorer"
    THEN { e \in fs : /\ e.dir = "user" /\ e.cmd = "listGroups" /\ e.src # ""
                      /\ e.ext = ".json" /\ e.content.wf
                      /\ "id" \in DOMAIN e.content }
    ELSE { e \in fs : /\ e.dir = "applicationgroups"
                      /\ e.cmd = "listApplicationGroupAssignments" /\ e.src = ""
                      /\ e.ext = ".json" /\ e.content.wf
                      /\ "id" \in DOMAIN e.content /\ "appId" \in DOMAIN e.content }

\* C6: a two-endpoint association handler issues a call for a record only
\* when both endpoints translate, each in the table of its own resource type,
\* and the call carries the two translated identifiers; for a record with
\* exactly one untranslatable endpoint no call is made.
C6_BothEndpointsResolved ==
    /\ \A i \in CallIdx :
          calls[i].by \in TwoEndpointRestorers =>
             LET c == calls[i]
                 ep == Endpoints(c.by, c.file)
             IN  /\ c.file \in AssociationRecords(c.by)
                 /\ \A n \in 1..2 :
                       /\ Resolvable(ep[n].type, ep[n].old)
                       /\ ArgOf(c.argv, ep[n].flag) = Mappings[ep[n].type][ep[n].old]
    /\ \A by \in TwoEndpointRestorers : \A e \in AssociationRecords(by) :
          LET ep == Endpoints(by, e)
          IN  (Resolvable(ep[1].type, ep[1].old) # Resolvable(ep[2].type, ep[2].old))
                 => ~\E i \in CallIdx : calls[i].by = by /\ calls[i].file = e

\* a finished run in which one handler made its call with both endpoints
\* translated and another skipped a record with exactly one translatable endpoint
C6_Witness ==
    /\ phase = "Done"
    /\ \E i \in CallIdx : calls[i].by = "UserGroupsRestorer"
    /\ \E e \in AssociationRecords("ApplicationGroupsRestorer") :
          /\ ~Resolvable("application", e.content.appId)
          /\ Resolvable("group", e.content.id)
          /\ \E l \in lookups : l.by = "ApplicationGroupsRestorer" /\ ~l.found

-----------------------------------------------------------------------------
(* C7 *)

Restorers == {"UserGroupsRestorer", "RoleAssignmentRestorer", "ApplicationGroupsRestorer"}

\* the failed primary call i is followed at once by one degraded call for the
\* same record, and by no second one
RetriedOnce(i) ==
    /\ i < Len(calls)
    /\ calls[i + 1].form = "degraded"
    /\ calls[i + 1].by = calls[i].by
    /\ calls[i + 1].file = calls[i].file
    /\ (i + 2 <= Len(calls)) => calls[i + 2].form = "primary"

\* C7 as stated: every association handler whose primary call for a record
\* fails issues exactly one retry in a degraded form.
C7_EveryHandlerRetries ==
    \A i \in CallIdx :
       (calls[i].by \in Restorers /\ calls[i].form = "primary"
          /\ calls[i].out = "fail") => RetriedOnce(i)

\* the records a handler can restore in the current mapping
RestorableBy(by) ==
    IF by = "RoleAssignmentRestorer"
    THEN { e \in fs : /\ e.dir = "roleassignment"
                      /\ e.cmd = "listAssignedRolesForUser" /\ e.src # ""
                      /\ e.ext = ".json" /\ e.content.wf
                      /\ "type" \in DOMAIN e.content
                      /\ Resolvable("user", e.src) }
    ELSE { e \in AssociationRecords(by) :
              \A n \in 1..2 : Resolvable(Endpoints(by, e)[n].type,
                                         Endpoints(by, e)[n].old) }

\* C7 amended: only the application-group handler retries: its failed primary
\* call is followed by exactly one degraded call for the same record, the
\* other two handlers never issue a degraded call, a degraded call only ever
\* follows a failed primary one, and in every handler a failure (of the retry
\* too) is not fatal: a finished run has issued the primary call of every
\* restorable record.
C7_OnlyAppGroupsRetries ==
    /\ \A i \in CallIdx :
          /\ (calls[i].by = "ApplicationGroupsRestorer" /\ calls[i].form = "primary"
                /\ calls[i].out = "fail") => RetriedOnce(i)
          /\ calls[i].form = "degraded" =>
                /\ calls[i].by = "ApplicationGroupsRestorer"
                /\ i > 1 /\ calls[i - 1].form = "primary"
                /\ calls[i - 1].out = "fail" /\ calls[i - 1].file = calls[i].file
    /\ phase = "Done" =>
          \A by \in Restorers : \A e \in RestorableBy(by) :
             Cardinality({ i \in CallIdx : /\ calls[i].by = by /\ calls[i].file = e
                                           /\ calls[i].form = "primary" }) = 1

\* a finished run in which the application-group handler's primary call and
\* its retry both failed for one record and the next record was still restored
C7_Witness ==
    /\ phase = "Done"
    /\ \E i, j \in CallIdx :
          /\ calls[i].by = "ApplicationGroupsRestorer"
          /\ calls[i].form = "primary" /\ calls[i].out = "fail"
          /\ calls[i + 1].form = "degraded" /\ calls[i + 1].out = "fail"
          /\ j > i + 1
          /\ calls[j].by = "ApplicationGroupsRestorer"
          /\ calls[j].file # calls[i].file

-----------------------------------------------------------------------------
(* C8 *)

\* the dependent descriptors that are assignment relations: membership-like
\* lists whose records attach an existing entity
AssignmentRelations ==
    { <<"user", "listGroups">>, <<"group", "listUsers">>,
      <<"group", "listAssignedApplicationsFor">> }

\* C8: for an assignment relation the second pass issues the relation-specific
\* call (addUserToGroup) and not a generic create, parameterized by the
\* translated source identifier and never by the old one; for every other
\* descriptor it handles, it issues the generic create parameterized by the
\* translated source identifier; and every record of an assignment relation
\* with a translatable source has had its call once the pass is over.
C8_AssignmentRouting ==
    [](
    /\ \A i \in SecondPassCalls :
          LET c == calls[i]
              type == SourceTypeOf(c.res, c.lcmd)
          IN  /\ Resolvable(type, c.oldSrc)
              /\ IF <<c.res, c.lcmd>> \in AssignmentRelations
                 THEN /\ c.argv[2] = "addUserToGroup"
                      /\ ArgOf(c.argv, SourceFlagOf(c)) = Mappings[type][c.oldSrc]
                      /\ c.oldSrc \notin Elems(c.argv)
                 ELSE c.argv = <<c.res, "create", SourceFlagOf(c),
                                 Mappings[type][c.oldSrc], "--restore-from">>
    /\ PhaseNo(phase) > PhaseNo("SecondPass") =>
          \A e \in fs :
             (e.src # "" /\ e.ext = ".json") =>
                \A g \in DependentDirs :
                   ( /\ PersistedFor(e, g) /\ ~g.registered
                     /\ <<g.name, g.lcmd>> \in AssignmentRelations
                     /\ Resolvable(g.type, e.src) ) =>
                      \E i \in SecondPassCalls :
                         /\ calls[i].file = e
                         /\ calls[i].argv[2] = "addUserToGroup"
    )

\* a finished run that restored the membership record listUsers/g1/u1.json
\* under the new identifier of g1 and another dependent record by a generic create
C8_Witness ==
    /\ phase = "Done"
    /\ \E i, j \in SecondPassCalls :
          /\ calls[i].res = "group" /\ calls[i].lcmd = "listUsers"
          /\ calls[i].oldSrc = "g1" /\ calls[i].file.base = "u1"
          /\ ArgOf(calls[i].argv, "--groupId") = Mappings["group"]["g1"]
          /\ calls[j].argv[2] = "create"

-----------------------------------------------------------------------------
(* C9 *)

\* a descriptor has gone through the generic path of the second pass when
\* the pass looked up one of its source identifiers
GenericPathRan(d) ==
    \E l \in lookups : /\ l.by = "restoreSecondPassResources"
                       /\ l.res = d.Name /\ l.lcmd = d.ListCommand

\* C9: dispatch is by resource-type name: the generic path of the second pass
\* never runs (no lookup, no call) for a descriptor under whose name a handler
\* is registered, and once the pass is over it has run for every descriptor
\* under whose name no handler is registered: each of its persisted
\* subdirectories has been looked up.
C9_DispatchByName ==
    [](
    /\ \A l \in lookups :
          l.by = "restoreSecondPassResources" => l.res \notin DOMAIN customRestorers
    /\ \A i \in SecondPassCalls : calls[i].res \notin DOMAIN customRestorers
    /\ PhaseNo(phase) > PhaseNo("SecondPass") =>
          \A e \in fs :
             e.src # "" =>
                \A g \in DependentDirs :
                   (PersistedFor(e, g) /\ ~g.registered) =>
                      Lookup("restoreSecondPassResources", g.name, g.lcmd, g.type,
                             e.src, Resolvable(g.type, e.src)) \in lookups
    )

\* a finished run with persisted subdirectories both for a descriptor that
\* has a handler under its name and for one that has none
C9_Witness ==
    /\ phase = "Done"
    /\ \E k1, k2 \in 1..Len(SecondPassResources) :
          /\ SecondPassResources[k1].Name \in DOMAIN customRestorers
          /\ DependentFiles(SecondPassResources[k1]) # {}
          /\ Resolvable(SecondPassResources[k1].SourceIDDir, "u1")
          /\ SecondPassResources[k2].Name \notin DOMAIN customRestorers
          /\ GenericPathRan(SecondPassResources[k2])

-----------------------------------------------------------------------------
(* C10 *)

\* the independent record (type, old) was created by the first pass of this run
CreatedInFirstPass(type, old) ==
    \E i \in FirstPassCalls :
       /\ calls[i].out = "ok"
       /\ calls[i].res = type
       /\ calls[i].file.base = old

\* C10: every lookup the second pass or a handler makes for an old identifier
\* whose independent record the first pass of this run created finds its entry.
C10_ParentAlwaysTranslatable ==
    \A l \in lookups : CreatedInFirstPass(l.type, l.old) => l.found

\* the second pass and a handler each looked up a parent that the first pass
\* of this run had created, and found the identifier assigned by that create
C10_Witness ==
    \E l1, l2 \in lookups :
       /\ l1.by = "restoreSecondPassResources"
       /\ l2.by \in Restorers
       /\ \A l \in {l1, l2} :
             /\ l.found
             /\ \E i \in FirstPassCalls :
                   /\ calls[i].out = "ok" /\ calls[i].res = l.type
                   /\ calls[i].file.base = l.old
                   /\ Mappings[l.type][l.old] = calls[i].id

-----------------------------------------------------------------------------
(* C11 *)

\* the mapping holds an entry for (type, old)
HasEntry(m, type, old) == type \in DOMAIN m /\ old \in DOMAIN m[type]

\* C11: after an AddMapping whose write succeeded, whatever calls came before,
\* the mapping holds the entry just passed and the mapping file is the text of
\* the complete in-memory mapping: it parses back to exactly that mapping, all
\* types and all entries.
C11_SnapshotAfterAddMapping ==
    (ret.op = "AddMapping" /\ ret.w = "ok") =>
        /\ HasEntry(Mappings, ret.type, ret.old)
        /\ Mappings[ret.type][ret.old] = ret.new
        /\ mapFile.exists /\ mapFile.wf
        /\ mapFile.data = MarshalIndent(Mappings, nilMaps)
        /\ Unmarshal(mapFile.data).m = Mappings
        /\ Unmarshal(mapFile.data).nil = nilMaps

\* an AddMapping has just overwritten an entry and been written out, with the
\* mapping holding two types and two entries under one of them
C11_Witness ==
    /\ ret.op = "AddMapping" /\ ret.w = "ok"
    /\ DOMAIN Mappings = {"user", "group"}
    /\ DOMAIN Mappings["user"] = {"u1", "g1"}
    /\ Mappings["user"]["u1"] = "n2" /\ Mappings["user"]["g1"] = "n1"
    /\ ret.type = "group" /\ Mappings["group"]["g1"] = "n2"

-----------------------------------------------------------------------------
(* C12 *)

\* C12: an AddMapping whose write failed returns an error to its caller.
C12_SaveFailureSurfaced ==
    (ret.op = "AddMapping" /\ ret.w \in WriteOutcomes \ {"ok"}) => ret.err

-----------------------------------------------------------------------------
(* C13 *)

\* the entries of mapping a and mapping b are the same except possibly the
\* entry for (type, old)
SameExcept(a, b, type, old) ==
    \A k \in StoreKeys :
       (k # <<type, old>>) =>
          /\ HasEntry(a, k[1], k[2]) = HasEntry(b, k[1], k[2])
          /\ HasEntry(a, k[1], k[2]) => a[k[1]][k[2]] = b[k[1]][k[2]]

\* the mapping a file holds, the empty one when there is no file
MappingIn(file) ==
    IF file.exists /\ file.wf THEN Unmarshal(file.data).m ELSE EmptyMappings

\* C13: when the process is killed, at whatever point, the mapping file of a
\* store that was loaded without error is a complete snapshot that parses, and
\* it holds every entry of the mapping except possibly the one being added.
C13_KilledLeavesSnapshot ==
    (phase = "Killed" /\ ~loadRes.err) =>
        /\ mapFile.exists => mapFile.wf
        /\ SameExcept(MappingIn(mapFile), Mappings, ret.type, ret.old)

-----------------------------------------------------------------------------
(* C15 *)

\* C15: a Load that finds no mapping file returns no error and leaves an empty
\* mapping, in which no lookup finds anything; an AddMapping that follows and
\* is written out leaves its entry in the mapping and the file in place.
C15_MissingFileIsEmptyStore ==
    (loadRes.done /\ ~loadRes.found) =>
        /\ ~loadRes.err
        /\ loadRes.m = EmptyMappings
        /\ \A k \in StoreKeys : ~GetNewID(loadRes.m, k[1], k[2]).ok
        /\ ret.op = "Load" => (~ret.err /\ Mappings = EmptyMappings)
        /\ (ret.op = "AddMapping" /\ ret.w = "ok") =>
              /\ GetNewID(Mappings, ret.type, ret.old) = [id |-> ret.new, ok |-> TRUE]
              /\ mapFile.exists /\ mapFile.wf

\* no file was found by Load, and an AddMapping has since been written out
C15_Witness ==
    /\ loadRes.done /\ ~loadRes.found
    /\ ret.op = "AddMapping" /\ ret.w = "ok"
    /\ Mappings = AddMapping(EmptyMappings, ret.type, ret.old, ret.new)

-----------------------------------------------------------------------------
(* C16 *)

\* C16: a GetNewID call returns found = TRUE with the entry's new identifier
\* exactly when the mapping holds an entry for its (type, old), found = FALSE
\* with the empty string otherwise, and changes neither the mapping in memory
\* nor the mapping file.
C16_GetNewIDPureLookup ==
    [][ (ret'.op = "GetNewID" /\ ret' # ret) =>
           /\ Mappings' = Mappings
           /\ mapFile' = mapFile
           /\ ret'.ok = HasEntry(Mappings, ret'.type, ret'.old)
           /\ ret'.id = IF HasEntry(Mappings, ret'.type, ret'.old)
                         THEN Mappings[ret'.type][ret'.old] ELSE "" ]_vars

\* a lookup has just missed on an old identifier that is absent under a type
\* the mapping knows
C16_Witness ==
    /\ ret.op = "GetNewID" /\ ~ret.ok
    /\ ret.type \in DOMAIN Mappings
    /\ Mappings[ret.type] # << >>

-----------------------------------------------------------------------------
(* C17 *)

\* the (type, old, new) triples the text of a mapping file holds
TriplesIn(file) ==
    IF ~file.exists THEN {}
    ELSE LET types == file.data.ms
         IN  UNION { { <<types[i].k, types[i].v.ms[j].k, types[i].v.ms[j].v.s>> :
                          j \in DOMAIN types[i].v.ms } : i \in DOMAIN types }

\* C17: a Save that directly follows the Load of a mapping file that parses,
\* and is written out, leaves a file holding the same (type, old, new) triples
\* as before the Load.
C17_LoadSaveRoundTrip ==
    [][ ( /\ ret.op = "Load" /\ ~ret.err
          /\ ret'.op = "Save" /\ ret'.w = "ok" ) =>
           /\ mapFile'.exists /\ mapFile'.wf
           /\ TriplesIn(mapFile') = TriplesIn(mapFile) ]_vars

\* a snapshot of two types has been loaded and saved again with nothing between
C17_Witness ==
    /\ ret.op = "Save" /\ ret.w = "ok"
    /\ loadRes.found /\ ~loadRes.err
    /\ Mappings = loadRes.m
    /\ Mappings = PriorMappings
    /\ mapFile.data = MarshalIndent(PriorMappings, NoNil)

-----------------------------------------------------------------------------
(* C14 *)

\* C14: once Load has returned an error the run is over: no Backend call is
\* ever issued and the mapping file stays as it was found.
C14_MalformedLoadIsFatal ==
    (loadRes.done /\ loadRes.err) =>
        /\ calls = << >>
        /\ mapFile \in MapFiles

-----------------------------------------------------------------------------
(* C18 *)

\* the singleton and independent record files the passes list
SingletonFiles ==
    { e \in fs : /\ e.src = "" /\ e.ext = ".json"
                 /\ \E k \in 1..Len(SingletonResources) :
                       /\ e.dir = ToLower(SingletonResources[k].Name)
                       /\ e.cmd = SingletonResources[k].GetCommand }

ListedIndependentFiles ==
    { e \in fs : /\ e.src = "" /\ e.ext = ".json"
                 /\ \E k \in 1..Len(FirstPassResources) :
                       /\ FirstPassResources[k].ListCommand # ""
                       /\ <<e.dir, e.cmd>> = FirstPassDir(FirstPassResources[k]) }

CallsFor(by, e) == { i \in CallIdx : calls[i].by = by /\ calls[i].file = e }

\* the directory the loop the run is in walks
DirAt ==
    CASE phase = "Singleton"   -> SingletonDir(SingletonResources[dIdx])
      [] phase = "FirstPass"   -> FirstPassDir(FirstPassResources[dIdx])
      [] phase = "SecondPass"  -> SecondPassDir(SecondPassResources[dIdx])
      [] phase = "Association" -> RestorerDir(handler)

\* the run is at an entry of the listing it walks, and inside a subdirectory
\* at one of its files
AtEntry(nested) ==
    LET entries == ReadDir(fs, DirAt[1], DirAt[2])
    IN  /\ eIdx \in 1..Len(entries)
        /\ IF nested
           THEN \/ fIdx = 0
                \/ /\ entries[eIdx].isDir
                   /\ fIdx \in 1..Len(ReadSubDir(fs, DirAt[1], DirAt[2],
                                                  entries[eIdx].name))
           ELSE fIdx = 0

\* a step of the run applies: PerformRestore is between two of its calls, or
\* the loop it is in is at its end, about to list a directory, or at an entry
CanProceed ==
    CASE phase = "Init" -> TRUE
      [] Panicked -> FALSE
      [] phase \in {"Singleton", "FirstPass", "SecondPass"} ->
            \/ dIdx > Len(PassList(phase))
            \/ dIdx \in 1..Len(PassList(phase)) /\ eIdx = 0 /\ fIdx = 0
            \/ dIdx \in 1..Len(PassList(phase)) /\ AtEntry(phase = "SecondPass")
      [] phase = "Association" ->
            \/ handler = "" /\ eIdx = 0 /\ fIdx = 0
            \/ handler \in DOMAIN customRestorers
                  /\ AtEntry(handler # "applicationGroups")
      [] phase = "Done" -> FALSE

\* the mapping file did not hold a mapping: Load returned an error, or left a
\* nil map or table behind
MalformedMappingFile == loadRes.err \/ nilMaps # NoNil

\* C18: in a run whose mapping file was missing or held a mapping, whatever
\* fails on the way (a Backend call, a directory that is not there, a mapping
\* entry that is not there, a record that does not parse or has no id), the
\* run is never stuck before Done, and at Done it has been through every phase
\* and attempted every record: every singleton file and listed independent
\* record has its create, every dependent record of the second pass and every
\* record of a handler whose identifiers translate has its call, and every
\* handler has run.
C18_RecoverableNeverFatal ==
    [](
    ~MalformedMappingFile =>
       /\ phase # "Done" => CanProceed
       /\ phase = "Done" =>
             /\ handler = "" /\ handlersLeft = {}
             /\ \A e \in SingletonFiles : CallsFor("restoreSingletonResources", e) # {}
             /\ \A e \in ListedIndependentFiles :
                   CallsFor("restoreFirstPassResources", e) # {}
             /\ \A e \in fs :
                   (e.src # "" /\ e.ext = ".json") =>
                      \A g \in DependentDirs :
                         ( /\ PersistedFor(e, g) /\ ~g.registered
                           /\ Resolvable(g.type, e.src) ) => CallMadeFor(e)
             /\ \A by \in Restorers : \A e \in RestorableBy(by) : CallsFor(by, e) # {}
    )

\* a finished run on a mapping file that held a mapping, in which a singleton
\* create failed, an independent create failed, and a dependent record's
\* parent had no mapping entry
C18_Witness ==
    /\ phase = "Done"
    /\ ~MalformedMappingFile
    /\ \E i, j \in CallIdx :
          /\ calls[i].by = "restoreSingletonResources" /\ calls[i].out = "fail"
          /\ calls[j].by = "restoreFirstPassResources" /\ calls[j].out = "fail"
    /\ \E l \in lookups : ~l.found

-----------------------------------------------------------------------------
(* C19 *)

\* C19: a mapping entry loaded from the file of an earlier run never keeps the
\* first pass from creating the record again: once the first pass is over,
\* every listed independent record whose (type, old identifier) the loaded
\* mapping held has had its create issued in this run.
C19_RerunRecreates ==
    [](
    PhaseNo(phase) > PhaseNo("FirstPass") =>
       \A k \in 1..Len(FirstPassResources) :
          ( /\ FirstPassResources[k].Name \in DOMAIN loadRes.m
            /\ FirstPassResources[k].ListCommand # "" ) =>
             \A e \in fs :
                ( /\ e.src = "" /\ e.ext = ".json"
                  /\ e.base \in DOMAIN loadRes.m[FirstPassResources[k].Name]
                  /\ <<e.dir, e.cmd>> = FirstPassDir(FirstPassResources[k]) ) =>
                   \E i \in CallsFor("restoreFirstPassResources", e) :
                      /\ calls[i].res = FirstPassResources[k].Name
                      /\ calls[i].argv = <<FirstPassResources[k].Name, "create",
                                           "--restore-from">>
    )

\* a run that loaded the entry of user u1 from an earlier run has created u1
\* again and mapped it to the new identifier
C19_Witness ==
    /\ phase = "Done"
    /\ HasEntry(loadRes.m, "user", "u1") /\ loadRes.m["user"]["u1"] = "p1"
    /\ \E i \in FirstPassCalls :
          /\ calls[i].res = "user" /\ calls[i].file.base = "u1"
          /\ calls[i].out = "ok"
          /\ Mappings["user"]["u1"] = calls[i].id
          /\ calls[i].id # "p1"

-----------------------------------------------------------------------------
(* C20 *)

\* C20: a step of the singleton phase never changes the mapping in memory or
\* the mapping file, a singleton call is a create that ends one way or the
\* other with the phase going on, and when the phase ends every persisted
\* file of every singleton descriptor has been replayed through exactly one
\* create.
C20_SingletonReplay ==
    [][ /\ phase = "Singleton" =>
              /\ Mappings' = Mappings /\ mapFile' = mapFile
              /\ phase' \in {"Singleton", "FirstPass"}
              /\ \A i \in (DOMAIN calls') \ (DOMAIN calls) :
                    /\ calls'[i].by = "restoreSingletonResources"
                    /\ calls'[i].argv = <<calls'[i].res, "create", "--restore-from">>
                    /\ calls'[i].file \in SingletonFiles
        /\ (phase = "Singleton" /\ phase' # "Singleton") =>
              \A e \in SingletonFiles :
                 Cardinality(CallsFor("restoreSingletonResources", e)) = 1 ]_vars

\* the create of the first singleton file failed, the file of the next
\* singleton descriptor was replayed all the same, and the mapping is as loaded
C20_Witness ==
    /\ phase = "FirstPass"
    /\ Len(calls) = 2
    /\ calls[1].by = "restoreSingletonResources" /\ calls[1].out = "fail"
    /\ calls[2].by = "restoreSingletonResources"
    /\ calls[1].res # calls[2].res
    /\ Mappings = loadRes.m

-----------------------------------------------------------------------------
(* C21 *)

\* C21: no step of a restore run creates, changes or deletes a persisted
\* record entry below <root>/<type>/<command>: the path namespace is the same
\* after every step as before it; what a run writes is the mapping file.
C21_NamespaceReadOnly ==
    [][fs' = fs]_vars

\* a run that found no mapping file has ended: the first pass created a
\* record and wrote the mapping file, a later phase issued a call as well
C21_Witness ==
    /\ phase = "Done"
    /\ loadRes.done /\ ~loadRes.found
    /\ mapFile.exists
    /\ \E i \in FirstPassCalls : calls[i].out = "ok"
    /\ \E i \in CallIdx : calls[i].by \notin {"restoreFirstPassResources",
                                              "restoreSingletonResources"}

-----------------------------------------------------------------------------
(* C22 *)

\* the Backend calls of a backup told apart by their argument vectors
IsSingletonGet(c) ==
    \E j \in DOMAIN SingletonResources :
       c.argv = <<SingletonResources[j].Name, SingletonResources[j].GetCommand,
                  "--backup-dir">>

IsFirstPassList(c) ==
    \E j \in DOMAIN FirstPassResources :
       c.argv = <<FirstPassResources[j].Name, FirstPassResources[j].ListCommand,
                  "--batch-backup", "--backup-dir">>

IsSecondPassList(c) ==
    /\ Len(c.argv) = 6
    /\ \E j \in DOMAIN SecondPassResources :
          /\ c.argv[1] = SecondPassResources[j].Name
          /\ c.argv[2] = SecondPassResources[j].ListCommand
    /\ c.argv[5] = "--batch-backup"

SingletonGets == { i \in CallIdx : IsSingletonGet(calls[i]) }
FirstPassLists == { i \in CallIdx : IsFirstPassList(calls[i]) }
SecondPassLists == { i \in CallIdx : IsSecondPassList(calls[i]) }

\* C22 as stated: every singleton get call precedes every first-pass list
\* call, and every first-pass list call precedes every second-pass list call.
C22_SingletonThenFirstThenSecond ==
    /\ \A i \in SingletonGets, j \in FirstPassLists : i < j
    /\ \A i \in FirstPassLists, j \in SecondPassLists : i < j

\* C22 amended: the passes run in the order first pass, singleton pass, second
\* pass: every first-pass list call precedes every singleton get call, and
\* every singleton get call (hence every first-pass list call) precedes every
\* second-pass list call.
C22_FirstThenSingletonThenSecond ==
    /\ \A i \in FirstPassLists, j \in SingletonGets : i < j
    /\ \A i \in SingletonGets, j \in SecondPassLists : i < j
    /\ \A i \in FirstPassLists, j \in SecondPassLists : i < j
    /\ CallIdx = FirstPassLists \cup SingletonGets \cup SecondPassLists

\* a backup has ended with calls of all three passes made
C22_Witness ==
    /\ phase = "BackupDone"
    /\ Cardinality(FirstPassLists) = Len(FirstPassResources)
    /\ Cardinality(SingletonGets) = Len(SingletonResources)
    /\ SecondPassLists # {}

-----------------------------------------------------------------------------
(* C23 *)

\* the list command of the first-pass listing of a resource type, "" when no
\* independent descriptor has that name
FirstPassCommandOf(type) ==
    IF \E j \in DOMAIN FirstPassResources : FirstPassResources[j].Name = type
    THEN FirstPassResources[CHOOSE j \in DOMAIN FirstPassResources :
                               FirstPassResources[j].Name = type].ListCommand
    ELSE ""

\* the record identifiers persisted, as <id>.json, for the first-pass listing
\* of a resource type at <root>/<lowercased type>/<command>
PersistedIDs(type) ==
    { e.base : e \in { x \in fs : /\ x.dir = ToLower(type)
                                  /\ x.cmd = FirstPassCommandOf(type)
                                  /\ x.src = "" /\ x.ext = ".json" } }

\* the second-pass list calls issued for a dependent descriptor
SecondPassListsOf(d) ==
    { i \in SecondPassLists :
         calls[i].argv[1] = d.Name /\ calls[i].argv[2] = d.ListCommand }

\* C23: when the second pass of a backup has run, every dependent descriptor
\* has been given exactly one list call for each record identifier persisted
\* for the first-pass listing of its sourceType at <root>/<lowercased
\* sourceType>/<command>, parameterized by that identifier, and no other call.
C23_SourceIDsArePersistedIDs ==
    (phase = "BackupDone" /\ ~ret.err) =>
        \A j \in DOMAIN SecondPassResources :
           LET d == SecondPassResources[j]
           IN  /\ { calls[i].argv[4] : i \in SecondPassListsOf(d) }
                     = PersistedIDs(d.SourceIDDir)
               /\ \A id \in PersistedIDs(d.SourceIDDir) :
                     Cardinality({ i \in SecondPassListsOf(d) :
                                      calls[i].argv[4] = id }) = 1

-----------------------------------------------------------------------------
(* C24 *)

\* the identifiers the second pass of the backup finds for a dependent
\* descriptor: the .json files of <SourceIDDir>/lists
SourceIDsRead(d) ==
    { e.base : e \in { x \in fs : /\ x.dir = d.SourceIDDir /\ x.cmd = "lists"
                                  /\ x.src = "" /\ x.ext = ".json" } }

\* the backup has a next step to take
BackupCanProceed ==
    \/ phase = "BackupStart"
    \/ /\ phase \in {"BackupFirstPass", "BackupSingleton", "BackupSecondPass"}
       /\ dIdx <= Len(BackupPassList(phase)) + 1
       /\ (phase = "BackupSecondPass" /\ eIdx >= 1) => eIdx <= Len(ids)
       /\ (phase # "BackupSecondPass") => eIdx = 0

\* C24: a backup is never stopped by a failed Backend call or a missing source
\* directory.  Until it has ended it has a next step; it returns an error only
\* before its first Backend call; and when it has ended otherwise, every
\* independent descriptor and every singleton descriptor has had its one
\* call, every dependent descriptor has had one call for each identifier
\* found for it, whatever calls failed, and nil is returned.
C24_BackupNeverAborts ==
    /\ phase # "BackupDone" => BackupCanProceed
    /\ phase = "BackupDone" =>
          /\ ret.op = "PerformBackup"
          /\ ret.err => calls = << >>
          /\ ~ret.err =>
                /\ \A j \in DOMAIN FirstPassResources :
                      Cardinality({ i \in FirstPassLists :
                         /\ calls[i].argv[1] = FirstPassResources[j].Name
                         /\ calls[i].argv[2] = FirstPassResources[j].ListCommand }) = 1
                /\ \A j \in DOMAIN SingletonResources :
                      Cardinality({ i \in SingletonGets :
                         /\ calls[i].argv[1] = SingletonResources[j].Name
                         /\ calls[i].argv[2] = SingletonResources[j].GetCommand }) = 1
                /\ \A j \in DOMAIN SecondPassResources :
                      \A id \in SourceIDsRead(SecondPassResources[j]) :
                         Cardinality({ i \in SecondPassListsOf(SecondPassResources[j]) :
                                          calls[i].argv[4] = id }) = 1

\* a backup has ended with nil although the call for the first identifier of
\* a dependent descriptor failed: the next identifier of the descriptor and
\* later descriptors were attempted
C24_Witness ==
    /\ phase = "BackupDone" /\ ~ret.err
    /\ \E i \in SecondPassLists :
          /\ calls[i].out = "fail"
          /\ i + 1 \in SecondPassLists
          /\ calls[i + 1].argv[2] = calls[i].argv[2]
          /\ calls[i + 1].argv[4] # calls[i].argv[4]
          /\ \E k \in SecondPassLists : k > i /\ calls[k].argv[1] # calls[i].argv[1]

-----------------------------------------------------------------------------
(* C25 *)

\* C25: in the second pass of a backup, a dependent descriptor for whose
\* sourceType the pass finds no persisted identifier is passed over: the step
\* that reaches it issues no call and moves on to the next descriptor, and at
\* no time has a list call been issued for such a descriptor.
C25_NoIDsNoCall ==
    [][ /\ ( /\ phase = "BackupSecondPass" /\ eIdx = 0
             /\ dIdx <= Len(SecondPassResources)
             /\ SourceIDsRead(SecondPassResources[dIdx]) = {} )
           => ( /\ calls' = calls /\ fs' = fs
                /\ phase' = "BackupSecondPass" /\ dIdx' = dIdx + 1 /\ eIdx' = 0 )
        /\ \A j \in DOMAIN SecondPassResources :
              (SourceIDsRead(SecondPassResources[j]) = {}
                  => SecondPassListsOf(SecondPassResources[j]) = {})' ]_vars

\* the source directory of the group descriptors is there and holds no record
\* file; the backup has ended, no call was issued for them, and the
\* descriptors after them got their calls
C25_Witness ==
    /\ phase = "BackupDone"
    /\ \E e \in fs : e.dir = "group" /\ e.cmd = "lists"
    /\ \A j \in DOMAIN SecondPassResources :
          SecondPassResources[j].SourceIDDir = "group" =>
             /\ SourceIDsRead(SecondPassResources[j]) = {}
             /\ SecondPassListsOf(SecondPassResources[j]) = {}
    /\ \E i \in SecondPassLists : calls[i].argv[1] = "user"

-----------------------------------------------------------------------------
(* C26 *)

\* the names of the independent (first-pass) and of the dependent
\* (second-pass) descriptors of the catalog, and the sourceTypes in use
IndependentNames == { FirstPassResources[j].Name : j \in DOMAIN FirstPassResources }
DependentNames == { SecondPassResources[j].Name : j \in DOMAIN SecondPassResources }
SourceTypes == { SecondPassResources[j].SourceIDDir : j \in DOMAIN SecondPassResources }

\* C26: the sourceType of every dependent descriptor of the catalog is the
\* name of an independent descriptor, and under a catalog for which this does
\* not hold no work is done: no Backend call of a run is ever issued.
C26_SourceTypesResolved ==
    calls # << >> => SourceTypes \subseteq IndependentNames

-----------------------------------------------------------------------------
(* C27 *)

\* C27: the dependency graph of the catalog has two levels: no name that
\* appears among the dependent descriptors is used as a sourceType.  Stated of
\* the catalog a second pass walks, at every dependent descriptor it is at.
C27_TwoLevels ==
    (phase = "BackupSecondPass" /\ dIdx <= Len(SecondPassResources)) =>
        \A i \in DOMAIN SecondPassResources :
           SecondPassResources[i].Name # SecondPassResources[dIdx].SourceIDDir

-----------------------------------------------------------------------------
(* C28 *)

\* the readers of dependent resource types of a restore
DependentReaders == {"restoreSecondPassResources"} \cup Restorers

\* C28: every record a reader of a dependent resource type acts on lies at
\* <root>/<lowercased resourceType>/<command>/<sourceID>/<recordID>.json: in a
\* source-identifier subdirectory of the command directory, where the second
\* pass of the backup persists the records of a dependent type.
C28_DependentRecordsBelowSourceID ==
    \A i \in CallIdx :
       calls[i].by \in DependentReaders =>
          /\ calls[i].file.src # ""
          /\ calls[i].file.ext = ".json"
          /\ \E d \in DependentDirs :
                calls[i].file.dir = d.dir /\ calls[i].file.cmd = d.lcmd

-----------------------------------------------------------------------------
(* C29 *)

\* C29: a step of the Singleton phase, of SecondPass or of an
\* AssociationHandler leaves the mapping in memory and the mapping file as
\* they are; after the load the mapping changes only in a step of FirstPass,
\* so that it is at Done what it was when FirstPass ended.
C29_OnlyFirstPassMaps ==
    [][ /\ phase \in {"Singleton", "SecondPass", "Association", "Done"} =>
              Mappings' = Mappings /\ mapFile' = mapFile
        /\ (Mappings' # Mappings \/ mapFile' # mapFile) =>
              \/ phase = "Init"
              \/ /\ phase = "FirstPass" /\ phase' = "FirstPass"
                 /\ Len(calls') = Len(calls) + 1
                 /\ calls'[Len(calls')].by = "restoreFirstPassResources" ]_vars

\* a run has ended in which the first pass mapped a record and SecondPass and
\* an AssociationHandler both had successful calls: the mapping holds the
\* first-pass entries and nothing else
C29_Witness ==
    /\ phase = "Done"
    /\ \E i \in SecondPassCalls : calls[i].out = "ok"
    /\ \E i \in CallIdx : calls[i].by \in Restorers /\ calls[i].out = "ok"
    /\ Mappings # loadRes.m
    /\ \A t \in DOMAIN Mappings : \A o \in DOMAIN Mappings[t] :
          \/ (t \in DOMAIN loadRes.m /\ o \in DOMAIN loadRes.m[t]
                /\ loadRes.m[t][o] = Mappings[t][o])
          \/ \E i \in FirstPassCalls : calls[i].out = "ok" /\ calls[i].id = Mappings[t][o]

-----------------------------------------------------------------------------
(* C30 *)

\* the flags of an argument vector that take an entity identifier
IdentifierFlags ==
    { "--" \o paramMap[k] : k \in DOMAIN paramMap } \cup {"--id"}

\* the new identifiers the GetNewID lookups of the run have returned
LookedUp ==
    { Mappings[l.type][l.old] : l \in { x \in lookups : x.found } }

\* C30: every entity identifier restore passes to the Backend in a dependent
\* create, an assignment call or an association call is a value returned by an
\* IDMapping lookup of the run: neither an old identifier nor a fixed
\* placeholder stands in an identifier parameter.
C30_IdentifiersAreLookedUp ==
    \A i \in CallIdx :
       calls[i].by \in DependentReaders =>
          \A k \in 1..(Len(calls[i].argv) - 1) :
             calls[i].argv[k] \in IdentifierFlags =>
                calls[i].argv[k + 1] \in LookedUp

-----------------------------------------------------------------------------
(* C31 *)

\* the record e of the dependent descriptor g names nothing its handler could
\* fail to translate: a membership record names a mapped group, a role
\* assignment its role type
HandlerCouldAct(e, g) ==
    /\ (g.name = "user" /\ g.lcmd = "listGroups") =>
          e \in RestorableBy("UserGroupsRestorer")
    /\ g.name = "roleAssignment" => e \in RestorableBy("RoleAssignmentRestorer")

\* C31: when a restore run has ended, every record persisted for a dependent
\* descriptor of the catalog under a translatable source identifier has had at
\* least one Backend call, issued by SecondPass or by an AssociationHandler:
\* no descriptor is kept out of SecondPass by a registered handler name and
\* then left unrestored by the handler.  (Stated of the records that are
\* well-formed and whose other identifiers translate as well.)
C31_EveryDependentRecordRestored ==
    phase = "Done" =>
       \A e \in fs : \A g \in DependentDirs :
          ( /\ PersistedFor(e, g) /\ e.ext = ".json" /\ e.content.wf
            /\ Resolvable(g.type, e.src)
            /\ HandlerCouldAct(e, g) )
             => \E i \in CallIdx : calls[i].file = e

-----------------------------------------------------------------------------
(* C32 *)

\* the create command of call c succeeded: the object exists in the target
CreatedInTarget(c) == c.out \in {"ok", "noid"}

\* C32: once FirstPass is over, every independent record whose create
\* succeeded in the target account has a mapping entry for its old identifier:
\* no object was created without its new identifier being recorded.
C32_CreatedImpliesMapped ==
    PhaseNo(phase) > PhaseNo("FirstPass") =>
       \A i \in FirstPassCalls :
          CreatedInTarget(calls[i]) =>
             HasEntry(Mappings, calls[i].res, calls[i].file.base)

-----------------------------------------------------------------------------
(* C33 *)

\* the parameter flag the second pass of the backup lists the records of a
\* dependent descriptor with, and the one SecondPass of the restore creates
\* them with
BackupFlagOf(resource) == getParameterFlagForResource(resource.Name)
RestoreFlagOf(resource) == getParameterFlagForResource(resource.SourceIDDir)

\* C33: for every dependent descriptor that SecondPass of the restore handles,
\* the flag the backup lists its records with is the flag the restore creates
\* them with.  Stated at every dependent descriptor the second pass of a
\* backup is at.
C33_SameParameterFlag ==
    ( /\ phase = "BackupSecondPass" /\ dIdx <= Len(SecondPassResources)
      /\ ~hasCustomHandler(SecondPassResources[dIdx].Name) )
       => BackupFlagOf(SecondPassResources[dIdx])
             = RestoreFlagOf(SecondPassResources[dIdx])

-----------------------------------------------------------------------------
(* C34 *)

\* the mapping file of an earlier run held an entry for (type, old)
LoadedEntry(type, old) == HasEntry(loadRes.m, type, old)

\* the identifiers call j passes for the independent record (type, old): the
\* source identifier of a second-pass call, an endpoint of a handler's call
PassedFor(j, type, old) ==
    LET c == calls[j]
    IN  IF c.by = "restoreSecondPassResources"
        THEN IF SourceTypeOf(c.res, c.lcmd) = type /\ c.oldSrc = old
             THEN {ArgOf(c.argv, SourceFlagOf(c))} ELSE {}
        ELSE IF c.by \in TwoEndpointRestorers /\ c.form = "primary"
        THEN { ArgOf(c.argv, Endpoints(c.by, c.file)[n].flag) :
                  n \in { k \in 1..2 : /\ Endpoints(c.by, c.file)[k].type = type
                                       /\ Endpoints(c.by, c.file)[k].old = old } }
        ELSE {}

\* C34: in a run that loaded the mapping of an earlier run, once the first
\* pass is over the entry of a record the earlier run had mapped is the
\* identifier this run's create returned for it, or, when that create failed
\* (it returned no identifier), still the entry of the earlier run; and every
\* call of the second pass and of the handlers made for that record passes the
\* entry.
C34_LatestCreateWins ==
    [](
    PhaseNo(phase) > PhaseNo("FirstPass") =>
       \A i \in FirstPassCalls :
          LET type == calls[i].res
              old  == calls[i].file.base
          IN  LoadedEntry(type, old) =>
                 /\ HasEntry(Mappings, type, old)
                 /\ Mappings[type][old] =
                       IF calls[i].out = "ok" THEN calls[i].id
                       ELSE loadRes.m[type][old]
                 /\ \A j \in CallIdx :
                       PassedFor(j, type, old) \subseteq {Mappings[type][old]}
    )

\* a finished re-run on the mapping of an earlier run: the create of group g1
\* returned a new identifier, which replaced the loaded one, the create of
\* user u1 failed, and a call made for a record of u1 and g1 passed the new
\* identifier of g1 and the loaded identifier of u1
C34_Witness ==
    /\ phase = "Done"
    /\ LoadedEntry("group", "g1") /\ LoadedEntry("user", "u1")
    /\ \E i, k \in FirstPassCalls :
          /\ calls[i].res = "group" /\ calls[i].file.base = "g1"
          /\ calls[i].out = "ok" /\ calls[i].id # loadRes.m["group"]["g1"]
          /\ Mappings["group"]["g1"] = calls[i].id
          /\ calls[k].res = "user" /\ calls[k].file.base = "u1"
          /\ calls[k].out # "ok"
          /\ Mappings["user"]["u1"] = loadRes.m["user"]["u1"]
          /\ \E j \in CallIdx :
                /\ PassedFor(j, "group", "g1") = {calls[i].id}
                /\ PassedFor(j, "user", "u1") = {loadRes.m["user"]["u1"]}

-----------------------------------------------------------------------------
(* C35 *)

\* the argument vector a handler's primary call for record e has in the
\* current mapping
AssociationCommand(by, e) ==
    CASE by = "UserGroupsRestorer" ->
            UserGroupsCommand(Mappings["group"][e.content.id], Mappings["user"][e.src])
      [] by = "RoleAssignmentRestorer" ->
            RoleAssignmentCommand(Mappings["user"][e.src], e.content.type)
      [] OTHER ->
            <<"applicationGroups", "assignGroupToApplication",
              "--appId", Mappings["application"][e.content.appId],
              "--groupId", Mappings["group"][e.content.id], "--restore-from">>

\* the association calls that the persisted records and the mapping call for,
\* whatever the order of the handlers
AssociationCallsDue ==
    UNION { { <<by, AssociationCommand(by, e), e>> : e \in RestorableBy(by) } :
            by \in Restorers }

\* the primary calls the handlers have issued
AssociationCallsIssued ==
    { <<calls[i].by, calls[i].argv, calls[i].file>> :
         i \in { k \in CallIdx : calls[k].by \in Restorers /\ calls[k].form = "primary" } }

\* C35: whatever order the handlers run in, the Association phase leaves the
\* mapping as it found it, and when the run is done the association calls
\* issued are exactly those the persisted records and the mapping call for,
\* each once: the calls and the mapping at Done do not depend on the order.
C35_HandlerOrderIrrelevant ==
    [][ phase = "Association" =>
          /\ Mappings' = Mappings
          /\ phase' = "Done" =>
                /\ AssociationCallsIssued' = AssociationCallsDue'
                /\ \A by \in Restorers : \A e \in RestorableBy(by)' :
                      Cardinality({ i \in CallsFor(by, e)' :
                                       calls'[i].form = "primary" }) = 1 ]_vars

\* a finished run in which two handlers issued calls, the handler of the
\* user-group records before the handler of the application-group records
C35_Witness ==
    /\ phase = "Done"
    /\ \E i, j \in CallIdx :
          /\ i < j
          /\ calls[i].by = "UserGroupsRestorer"
          /\ calls[j].by = "ApplicationGroupsRestorer"

-----------------------------------------------------------------------------
(* C36 *)

\* the calls of one form issued for the persisted file e, by any phase
CallsOfForm(e, form) == { i \in CallIdx : calls[i].file = e /\ calls[i].form = form }

\* the functions that issued a call for the persisted file e
IssuersFor(e) == { calls[i].by : i \in { k \in CallIdx : calls[k].file = e } }

\* C36: within one restore run every persisted record file has at most one
\* primary Backend call, counted over all phases, and at most one degraded
\* retry; the records of a dependent type with a registered handler are never
\* also restored by the second pass.
C36_OnePrimaryCallPerFile ==
    /\ \A e \in fs :
          /\ Cardinality(CallsOfForm(e, "primary")) <= 1
          /\ Cardinality(CallsOfForm(e, "degraded")) <= 1
    /\ \A i \in SecondPassCalls : calls[i].res \notin DOMAIN customRestorers

\* a finished run in which a user-group record was restored by its handler
\* alone, and an application-group record got its primary call and one retry
C36_Witness ==
    /\ phase = "Done"
    /\ \E e \in RestorableBy("UserGroupsRestorer") :
          /\ IssuersFor(e) = {"UserGroupsRestorer"}
          /\ Cardinality(CallsOfForm(e, "primary")) = 1
    /\ \E e \in RestorableBy("ApplicationGroupsRestorer") :
          /\ Cardinality(CallsOfForm(e, "primary")) = 1
          /\ Cardinality(CallsOfForm(e, "degraded")) = 1
====
